---- MODULE Spec2Model ----
(***************************************************************************)
(* The Pangram game machine (games/pangram/src/machine.ts, an XState v5    *)
(* machine with the states `playing` and `validating`) together with the   *)
(* pure mechanics it calls (mechanics.ts).                                 *)
(*                                                                         *)
(* A string is a sequence of one-character strings, so that the            *)
(* character-level operations of the source (toUpperCase, filter, slice,   *)
(* includes, sort) are computed and not assumed.                           *)
(***************************************************************************)
EXTENDS Integers, Sequences, FiniteSets, TLC

\* ------------------------------------------------------------------------
\* Bounds of the model
\* ------------------------------------------------------------------------

\* longest input composed with ADD_LETTER
MaxInput == 4

\* the machine is created with input.puzzleIndex in 0..MaxStartIndex, or
\* with the index that lies MaxStartIndex + 1 beyond the end of the catalog
MaxStartIndex == 1

\* getPuzzle is called with an index in -MaxIndex..MaxIndex
MaxIndex == 12

\* the calls of submitWord an agent makes in one run
MaxCalls == 2

\* the messages passed to send on the two transports together
MaxSent == 3

\* the calls of GameEngine.step awaiting processActionAsync at one time
MaxPending == 2

\* GameEngine.step is called while context.step is below MaxSteps
MaxSteps == 3

\* ------------------------------------------------------------------------
\* Characters and strings
\* ------------------------------------------------------------------------

UpperChars ==
  << "A", "B", "C", "D", "E", "F", "G", "H", "I", "J", "K", "L", "M",
     "N", "O", "P", "Q", "R", "S", "T", "U", "V", "W", "X", "Y", "Z" >>

LowerChars ==
  << "a", "b", "c", "d", "e", "f", "g", "h", "i", "j", "k", "l", "m",
     "n", "o", "p", "q", "r", "s", "t", "u", "v", "w", "x", "y", "z" >>

includes(seq, x) == \E i \in 1..Len(seq) : seq[i] = x

IndexOf(seq, x) == CHOOSE i \in 1..Len(seq) : seq[i] = x

toUpperCaseChar(c) ==
  IF includes(LowerChars, c) THEN UpperChars[IndexOf(LowerChars, c)] ELSE c

toLowerCaseChar(c) ==
  IF includes(UpperChars, c) THEN LowerChars[IndexOf(UpperChars, c)] ELSE c

toUpperCase(w) == [i \in 1..Len(w) |-> toUpperCaseChar(w[i])]

toLowerCase(w) == [i \in 1..Len(w) |-> toLowerCaseChar(w[i])]

\* UTF-16 code unit of a letter (the order Array.prototype.sort compares by)
CharCode(c) ==
  IF includes(UpperChars, c) THEN 64 + IndexOf(UpperChars, c)
  ELSE IF includes(LowerChars, c) THEN 96 + IndexOf(LowerChars, c)
  ELSE 0

\* a < b in the string order of the default sort comparator
StringLess(a, b) ==
  \E k \in 1..(Len(b)) :
     /\ \A j \in 1..(k - 1) : j <= Len(a) /\ a[j] = b[j]
     /\ \/ k = Len(a) + 1
        \/ k <= Len(a) /\ CharCode(a[k]) < CharCode(b[k])

\* the place of s[i] in the sorted array: behind the smaller elements and,
\* the sort being stable, behind the equal elements that precede it
SortRank(s, i) ==
  Cardinality({j \in 1..Len(s) :
                 \/ StringLess(s[j], s[i])
                 \/ ~StringLess(s[i], s[j]) /\ j <= i})

\* Array.prototype.sort() with the default comparator
sort(s) ==
  [k \in 1..Len(s) |-> s[CHOOSE i \in 1..Len(s) : SortRank(s, i) = k]]

\* ------------------------------------------------------------------------
\* mechanics.ts
\* ------------------------------------------------------------------------

PUZZLES ==
  << [letters |-> <<"R", "A", "C", "K", "I", "N", "G">>, centerLetter |-> "K"],
     [letters |-> <<"P", "L", "A", "Y", "I", "N", "G">>, centerLetter |-> "Y"],
     [letters |-> <<"T", "R", "A", "V", "E", "L", "S">>, centerLetter |-> "V"],
     [letters |-> <<"Q", "U", "I", "C", "K", "L", "Y">>, centerLetter |-> "Q"],
     [letters |-> <<"J", "U", "M", "P", "I", "N", "G">>, centerLetter |-> "J"],
     [letters |-> <<"S", "T", "R", "O", "N", "G", "E">>, centerLetter |-> "G"],
     [letters |-> <<"B", "R", "I", "G", "H", "T", "S">>, centerLetter |-> "B"],
     [letters |-> <<"C", "L", "O", "U", "D", "S", "Y">>, centerLetter |-> "Y"],
     [letters |-> <<"W", "A", "T", "E", "R", "S", "Y">>, centerLetter |-> "W"],
     [letters |-> <<"M", "A", "R", "K", "E", "T", "S">>, centerLetter |-> "K"] >>

\* a % n as JavaScript computes it: the remainder has the sign of a
remainder(a, n) == IF a >= 0 THEN a % n ELSE 0 - ((0 - a) % n)

\* what reading an array at an index it does not have gives
undefined == [undefined |-> TRUE]

\* PUZZLES[index % PUZZLES.length], the array being 0-based
getPuzzle(index) ==
  LET i == remainder(index, Len(PUZZLES))
  IN  IF i \in 0..(Len(PUZZLES) - 1) THEN PUZZLES[i + 1] ELSE undefined

\* a pangram must be as long as the puzzle has letters
isPangram_exactLength(word, ltrs) ==
  /\ Len(word) = Len(ltrs)
  /\ \A i \in 1..Len(ltrs) :
       includes(toLowerCase(word), toLowerCaseChar(ltrs[i]))

\* the inclusion the wrong way round: the word's letters are the puzzle's
isPangram_reversed(word, ltrs) ==
  \A i \in 1..Len(word) : includes(toLowerCase(ltrs), toLowerCaseChar(word[i]))

isPangram(word, ltrs) ==
  \A i \in 1..Len(ltrs) : includes(toLowerCase(word), toLowerCaseChar(ltrs[i]))

usesOnlyAvailableLetters(word, ltrs) ==
  \A i \in 1..Len(word) : includes(toLowerCase(ltrs), toLowerCaseChar(word[i]))

containsCenterLetter(word, center) ==
  includes(toLowerCase(word), toLowerCaseChar(center))

\* a user-facing message: its fixed text and the values interpolated into it
Msg(text, letter, points) == [text |-> text, letter |-> letter, points |-> points]

NoMsg == Msg("", "", 0)

RulesOk == [valid |-> TRUE, reason |-> NoMsg]

RulesFail(reason) == [valid |-> FALSE, reason |-> reason]

\* validateWordRules looking the word up in found as typed, not normalized
validateWordRules_m(word, ltrs, center, found) ==
  LET normalizedWord == toLowerCase(word)
  IN  IF Len(normalizedWord) < 4
        THEN RulesFail(Msg("Too short! Need 4+ letters", "", 0))
      ELSE IF ~containsCenterLetter(normalizedWord, center)
        THEN RulesFail(Msg("Must include center letter: ", center, 0))
      ELSE IF ~usesOnlyAvailableLetters(normalizedWord, ltrs)
        THEN RulesFail(Msg("Uses letters not in the puzzle", "", 0))
      ELSE IF includes(found, word)
        THEN RulesFail(Msg("Already found!", "", 0))
      ELSE RulesOk

\* validateWordRules without the check of the center letter
validateWordRules_noCenter(word, ltrs, center, found) ==
  LET normalizedWord == toLowerCase(word)
  IN  IF Len(normalizedWord) < 4
        THEN RulesFail(Msg("Too short! Need 4+ letters", "", 0))
      ELSE IF ~usesOnlyAvailableLetters(normalizedWord, ltrs)
        THEN RulesFail(Msg("Uses letters not in the puzzle", "", 0))
      ELSE IF includes(found, normalizedWord)
        THEN RulesFail(Msg("Already found!", "", 0))
      ELSE RulesOk

\* validateWordRules checking the letters before the center letter
validateWordRules_lettersFirst(word, ltrs, center, found) ==
  LET normalizedWord == toLowerCase(word)
  IN  IF Len(normalizedWord) < 4
        THEN RulesFail(Msg("Too short! Need 4+ letters", "", 0))
      ELSE IF ~usesOnlyAvailableLetters(normalizedWord, ltrs)
        THEN RulesFail(Msg("Uses letters not in the puzzle", "", 0))
      ELSE IF ~containsCenterLetter(normalizedWord, center)
        THEN RulesFail(Msg("Must include center letter: ", center, 0))
      ELSE IF includes(found, normalizedWord)
        THEN RulesFail(Msg("Already found!", "", 0))
      ELSE RulesOk

validateWordRules(word, ltrs, center, found) ==
  LET normalizedWord == toLowerCase(word)
  IN  IF Len(normalizedWord) < 4
        THEN RulesFail(Msg("Too short! Need 4+ letters", "", 0))
      ELSE IF ~containsCenterLetter(normalizedWord, center)
        THEN RulesFail(Msg("Must include center letter: ", center, 0))
      ELSE IF ~usesOnlyAvailableLetters(normalizedWord, ltrs)
        THEN RulesFail(Msg("Uses letters not in the puzzle", "", 0))
      ELSE IF includes(found, normalizedWord)
        THEN RulesFail(Msg("Already found!", "", 0))
      ELSE RulesOk

\* a word of 4 letters scores its length like any other
calculateWordScore_four(word, ltrs) ==
  IF isPangram(word, ltrs) THEN Len(word) + 7 ELSE Len(word)

\* the score without the bonus of 7 for a pangram
calculateWordScore_noBonus(word, ltrs) ==
  IF Len(word) = 4 THEN 1 ELSE Len(word)

calculateWordScore(word, ltrs) ==
  LET base == IF Len(word) = 4 THEN 1 ELSE Len(word)
  IN  IF isPangram(word, ltrs) THEN base + 7 ELSE base

\* the word list of the dictionary (the list the machine's tests install)
Dictionary ==
  { <<"r", "a", "c", "k">>,
    <<"k", "i", "n", "g">>,
    <<"r", "i", "n", "g">>,
    <<"r", "a", "n", "k">>,
    <<"r", "i", "n", "k">>,
    <<"k", "i", "c", "k">>,
    <<"n", "i", "c", "k">>,
    <<"r", "i", "c", "k">>,
    <<"k", "i", "n", "k">>,
    <<"c", "a", "r", "k">>,
    <<"n", "a", "r", "k">>,
    <<"a", "k", "i", "n">>,
    <<"k", "i", "a", "n", "g">>,
    <<"c", "r", "a", "c", "k">>,
    <<"c", "r", "a", "n", "k">>,
    <<"r", "a", "k", "i", "n", "g">>,
    <<"c", "a", "k", "i", "n", "g">>,
    <<"i", "n", "k", "i", "n", "g">>,
    <<"i", "r", "k", "i", "n", "g">>,
    <<"r", "a", "n", "k", "i", "n", "g">>,
    <<"r", "a", "c", "k", "i", "n", "g">>,
    <<"k", "i", "c", "k", "i", "n", "g">>,
    <<"n", "i", "c", "k", "i", "n", "g">>,
    <<"r", "i", "c", "k", "i", "n", "g">>,
    <<"n", "a", "r", "k", "i", "n", "g">>,
    <<"c", "r", "a", "c", "k", "i", "n", "g">>,
    <<"c", "r", "a", "n", "k", "i", "n", "g">>,
    <<"c", "a", "r", "k", "i", "n", "g">> }

\* what validateWordDictionary(word) can resolve to: the answer of the
\* lookup, or false when the lookup failed (fail closed)
validateWordDictionary(word) == {toLowerCase(word) \in Dictionary, FALSE}

\* what createCustomPuzzle returns: a puzzle (error is "") or an error
CustomPuzzle(ltrs, center) ==
  [error |-> "", letters |-> ltrs, centerLetter |-> center]

CustomError(error) == [error |-> error, letters |-> <<>>, centerLetter |-> ""]

\* createCustomPuzzle telling duplicates apart by the letters as given
createCustomPuzzle_asGiven(ltrs, center) ==
  IF Len(ltrs) # 7
    THEN CustomError("Must have exactly 7 letters")
  ELSE LET upperLetters == toUpperCase(ltrs)
           upperCenter == toUpperCaseChar(center)
       IN  IF ~includes(upperLetters, upperCenter)
             THEN CustomError("Center letter must be one of the 7 letters")
           ELSE IF Cardinality({ltrs[i] : i \in 1..Len(ltrs)}) # 7
             THEN CustomError("All 7 letters must be unique")
           ELSE CustomPuzzle(upperLetters, upperCenter)

createCustomPuzzle(ltrs, center) ==
  IF Len(ltrs) # 7
    THEN CustomError("Must have exactly 7 letters")
  ELSE LET upperLetters == toUpperCase(ltrs)
           upperCenter == toUpperCaseChar(center)
           uniqueLetters == {upperLetters[i] : i \in 1..Len(upperLetters)}
       IN  IF ~includes(upperLetters, upperCenter)
             THEN CustomError("Center letter must be one of the 7 letters")
           ELSE IF Cardinality(uniqueLetters) # 7
             THEN CustomError("All 7 letters must be unique")
           ELSE CustomPuzzle(upperLetters, upperCenter)

\* ---- the two versions of validateWordDictionary --------------------------

\* what a function returned, as far as a caller testing it can tell: the
\* type of the value and whether it is truthy
JsValue(type, truthy) == [type |-> type, truthy |-> truthy]

\* what fetch and response.json() can do: fetch throws, or answers with a
\* status (ok or not) whose body fails to parse, is no array, or is an
\* array of entries, each with the word it defines ("" standing for an
\* entry whose word is empty, "undefined" for an entry without one)
FetchOutcomes ==
  { [kind |-> "throws", ok |-> FALSE, body |-> "none", entries |-> <<>>] }
  \cup { [kind |-> "response", ok |-> ok, body |-> body, entries |-> e] :
           ok \in BOOLEAN,
           body \in {"throws", "object"},
           e \in {<<>>} }
  \cup { [kind |-> "response", ok |-> ok, body |-> "array", entries |-> e] :
           ok \in BOOLEAN,
           e \in {<<>>, <<"word">>, <<"">>, <<"undefined">>} }

\* the version that fails open: a network error accepts the word
validateWordDictionaryApi_failOpen(word, fetch) ==
  IF fetch.kind = "throws"
    THEN JsValue("boolean", TRUE)
  ELSE IF ~fetch.ok
    THEN JsValue("boolean", FALSE)
  ELSE IF fetch.body = "throws"
    THEN JsValue("boolean", TRUE)
  ELSE IF fetch.body # "array" \/ Len(fetch.entries) = 0
    THEN JsValue("boolean", FALSE)
  ELSE IF fetch.entries[1] = "undefined"
    THEN JsValue("undefined", FALSE)
  ELSE JsValue("string", fetch.entries[1] # "")

\* validateWordDictionary, the version asking the Free Dictionary API
validateWordDictionaryApi(word, fetch) ==
  IF fetch.kind = "throws"
    THEN JsValue("boolean", FALSE)
  ELSE IF ~fetch.ok
    THEN JsValue("boolean", FALSE)
  ELSE IF fetch.body = "throws"
    THEN JsValue("boolean", FALSE)
  ELSE IF fetch.body # "array" \/ Len(fetch.entries) = 0
    THEN JsValue("boolean", FALSE)
  ELSE IF fetch.entries[1] = "undefined"
    THEN JsValue("undefined", FALSE)
  ELSE JsValue("string", fetch.entries[1] # "")

\* where loadDictionary runs and what it finds: a browser, a Node.js whose
\* dictionary.txt cannot be read, or a Node.js that reads these words
FileOutcomes ==
  { [env |-> "browser", read |-> "none", words |-> {}],
    [env |-> "node", read |-> "throws", words |-> {}],
    [env |-> "node", read |-> "ok", words |-> {}],
    [env |-> "node", read |-> "ok", words |-> {<<"r", "a", "c", "k">>}],
    [env |-> "node", read |-> "ok", words |-> {<<"k", "i", "n", "g">>}] }

\* the set of words loadDictionary resolves to
loadDictionary(file) ==
  IF file.env = "node" /\ file.read = "ok" THEN file.words ELSE {}

\* validateWordDictionary, the version with the local word list
validateWordDictionaryLocal(word, file, fetch) ==
  LET dict == loadDictionary(file)
  IN  IF Cardinality(dict) > 0
        THEN JsValue("boolean", toLowerCase(word) \in dict)
      ELSE IF fetch.kind = "throws"
        THEN JsValue("boolean", FALSE)
      ELSE JsValue("boolean", fetch.ok)

\* ------------------------------------------------------------------------
\* machine.ts: the context, the control state and the invoked actor
\* ------------------------------------------------------------------------

VARIABLES
  state,            \* snapshot.value: "playing" or "validating"
  letters,          \* context.letters
  centerLetter,     \* context.centerLetter
  currentInput,     \* context.currentInput
  foundWords,       \* context.foundWords
  score,            \* context.score
  lastMessage,      \* context.lastMessage
  lastMessageType,  \* context.lastMessageType
  puzzleIndex,      \* context.puzzleIndex
  children,         \* the running validateWord actors, oldest first
  lastEvent,        \* the last step taken: the type of the event the
                    \* machine processed, or the reply of the dictionary
  mech,             \* the last call of a function of mechanics.ts made
                    \* from outside the machine: its name, its arguments
                    \* and what it returned
  agent,            \* the calls of the agents' submitWord helper, in the
                    \* order they were made
  transport,        \* the pair made by createInProcessTransportPair, with
                    \* the microtasks it has queued
  engine,           \* a GameEngine whose config has processActionAsync
  pinpoint          \* the actor of the Pinpoint machine

context ==
  << letters, centerLetter, currentInput, foundWords, score,
     lastMessage, lastMessageType, puzzleIndex >>

vars ==
  << state, context, children, lastEvent, mech, agent, transport, engine,
     pinpoint >>

\* what a step of the Pangram machine leaves alone
others == << mech, agent, transport, engine, pinpoint >>

\* no function of mechanics.ts has been called yet
NoCall == [fn |-> "none", args |-> <<>>, result |-> FALSE]

\* the letters a host sends with ADD_LETTER
AddLetters == {"k", "I", "C", "Z"}

\* the words an agent sends with SUBMIT_WORD
SubmitWords ==
  { <<"R", "A", "C", "K">>,
    <<"r", "a", "c", "k">>,
    <<"C", "R", "A", "C", "K", "I", "N", "G">>,
    <<"X", "X", "X", "X">>,
    <<"R", "K">>,
    <<"R", "A", "Z", "C", "K">>,
    <<"K", "A", "R", "K">>,
    <<"R", "A", "I", "N">> }

\* JavaScript's null
null == "null"

\* no call of submitWord has been made
NoCalls == << >>

\* createInProcessTransportPair: queue A carries what the client sends,
\* queue B what the server sends; no handler is registered, both ends are
\* connected.  microtasks is the microtask queue of the process, sent
\* counts the messages each side has passed to send, received lists what
\* each side's handlers were called with.
createInProcessTransportPair ==
  [ queueA |-> [messages |-> << >>, handler |-> null],
    queueB |-> [messages |-> << >>, handler |-> null],
    connected |-> [client |-> TRUE, server |-> TRUE],
    microtasks |-> << >>,
    sent |-> [client |-> 0, server |-> 0],
    received |-> [client |-> << >>, server |-> << >>] ]

\* config.createInitialContext: the context of a game not yet played
createInitialContext == [step |-> 0, lastError |-> null, value |-> 0]

\* the GameEngine after its constructor; pending lists the calls of step
\* that are awaiting processActionAsync; prevContext is empty for null
GameEngine ==
  [ phase |-> "idle", context |-> createInitialContext,
    prevContext |-> << >>, pending |-> << >> ]

\* the Pinpoint actor before createActor
NotCreated ==
  [ value |-> "notCreated", hintWords |-> << >>, currentGuesses |-> << >>,
    gameIndex |-> 0, overallScore |-> 0 ]

\* input.puzzleIndex: an index of the catalog, or one beyond its end
StartIndexes == (0..MaxStartIndex) \cup {Len(PUZZLES) + MaxStartIndex + 1}

Init ==
  /\ puzzleIndex \in StartIndexes
  /\ letters = getPuzzle(puzzleIndex).letters
  /\ centerLetter = getPuzzle(puzzleIndex).centerLetter
  /\ currentInput = <<>>
  /\ foundWords = <<>>
  /\ score = 0
  /\ lastMessage = NoMsg
  /\ lastMessageType = "info"
  /\ state = "playing"
  /\ children = <<>>
  /\ lastEvent = "xstate.init"
  /\ mech = NoCall
  /\ agent = NoCalls
  /\ transport = createInProcessTransportPair
  /\ engine = GameEngine
  /\ pinpoint = NotCreated

\* ---- the validateWord actor ---------------------------------------------

NoOutput ==
  [valid |-> FALSE, reason |-> NoMsg, word |-> <<>>, points |-> 0,
   isPangram |-> FALSE, message |-> NoMsg]

Invalid(reason) == [NoOutput EXCEPT !.reason = reason]

\* the result validateWord returns for a word the dictionary confirmed
ValidResult(word, ltrs) ==
  LET normalizedWord == toLowerCase(word)
      points == calculateWordScore(normalizedWord, ltrs)
      isWordPangram == isPangram(normalizedWord, ltrs)
  IN  [valid |-> TRUE, reason |-> NoMsg, word |-> normalizedWord,
       points |-> points, isPangram |-> isWordPangram,
       message |-> IF isWordPangram
                     THEN Msg("PANGRAM! + points!", "", points)
                     ELSE Msg(IF points > 1 THEN "+ points" ELSE "+ point",
                              "", points)]

\* validateWord asking the dictionary before it looks at the rules
validateWordStart_m(word, ltrs, center, found) ==
  [status |-> "awaitingDictionary",
   input |-> [word |-> word, letters |-> ltrs, centerLetter |-> center,
              foundWords |-> found],
   dictionaryCalls |-> 1, output |-> NoOutput]

\* invoke: the actor is started with the input taken from the context and
\* runs up to its first await: the rules are checked, and only a word that
\* passes them is handed to validateWordDictionary.  dictionaryCalls counts
\* the calls of validateWordDictionary the actor has made.
validateWordStart(word, ltrs, center, found) ==
  LET input == [word |-> word, letters |-> ltrs, centerLetter |-> center,
                foundWords |-> found]
      rulesResult == validateWordRules(word, ltrs, center, found)
  IN  IF ~rulesResult.valid
        THEN [status |-> "resolved", input |-> input, dictionaryCalls |-> 0,
              output |-> Invalid(rulesResult.reason)]
        ELSE [status |-> "awaitingDictionary", input |-> input,
              dictionaryCalls |-> 1, output |-> NoOutput]

\* validateWord giving no reason when validateWordDictionary answers false
validateWordResume_noReason(input, isValidWord) ==
  IF ~isValidWord
    THEN Invalid(NoMsg)
    ELSE ValidResult(input.word, input.letters)

\* the rest of validateWord once validateWordDictionary has answered
validateWordResume(input, isValidWord) ==
  IF ~isValidWord
    THEN Invalid(Msg("Not a valid English word", "", 0))
    ELSE ValidResult(input.word, input.letters)

\* ---- actions of the machine ---------------------------------------------

\* setWord and the SUBMIT_WORD guard: the letters of the word that belong
\* to the puzzle, upper-cased
\* the filter applied to the word as sent, not upper-cased first
validLetters_raw(word, ltrs) ==
  SelectSeq(word, LAMBDA l : includes(ltrs, l))

validLetters(word, ltrs) ==
  SelectSeq(toUpperCase(word), LAMBDA l : includes(ltrs, l))

\* currentInput after addLetter has handled the letter l
addLetter(input, l, ltrs) ==
  LET letter == toUpperCaseChar(l)
  IN  IF includes(ltrs, letter) THEN Append(input, letter) ELSE input

\* currentInput after an ADD_LETTER for each character of word, in order
RECURSIVE addLetters(_, _, _)
addLetters(input, word, ltrs) ==
  IF word = <<>>
    THEN input
    ELSE addLetters(addLetter(input, Head(word), ltrs), Tail(word), ltrs)

\* DELETE_LETTER handled in every state instead of only in `playing`
Dropped_m(type) ==
  /\ state # "playing"
  /\ lastEvent' = type
  /\ UNCHANGED others
  /\ IF type = "DELETE_LETTER" /\ Len(currentInput) > 0
       THEN /\ currentInput' = SubSeq(currentInput, 1, Len(currentInput) - 1)
            /\ lastMessage' = NoMsg
            /\ UNCHANGED << state, letters, centerLetter, foundWords, score,
                            lastMessageType, puzzleIndex, children >>
       ELSE UNCHANGED << state, context, children >>

\* an event for which the current state defines no transition is dropped
Dropped(type) ==
  /\ state # "playing"
  /\ lastEvent' = type
  /\ UNCHANGED others
  /\ UNCHANGED << state, context, children >>

\* addLetter looking the letter up as sent, not upper-cased
ADD_LETTER_noUpper(l) ==
  \/ /\ state = "playing"
     /\ IF includes(letters, l)
          THEN /\ Len(currentInput) < MaxInput
               /\ currentInput' = Append(currentInput, l)
               /\ lastMessage' = NoMsg
          ELSE UNCHANGED << currentInput, lastMessage >>
     /\ lastEvent' = "ADD_LETTER"
     /\ UNCHANGED others
     /\ UNCHANGED << state, letters, centerLetter, foundWords, score,
                     lastMessageType, puzzleIndex, children >>
  \/ Dropped("ADD_LETTER")

ADD_LETTER(l) ==
  \/ /\ state = "playing"
     /\ LET letter == toUpperCaseChar(l)
        IN  IF includes(letters, letter)
              THEN /\ Len(currentInput) < MaxInput
                   /\ currentInput' = Append(currentInput, letter)
                   /\ lastMessage' = NoMsg
              ELSE UNCHANGED << currentInput, lastMessage >>
     /\ lastEvent' = "ADD_LETTER"
     /\ UNCHANGED others
     /\ UNCHANGED << state, letters, centerLetter, foundWords, score,
                     lastMessageType, puzzleIndex, children >>
  \/ Dropped("ADD_LETTER")

\* deleteLetter dropping the first character instead of the last
DELETE_LETTER_first ==
  \/ /\ state = "playing"
     /\ IF Len(currentInput) = 0
          THEN UNCHANGED << currentInput, lastMessage >>
          ELSE /\ currentInput' = Tail(currentInput)
               /\ lastMessage' = NoMsg
     /\ lastEvent' = "DELETE_LETTER"
     /\ UNCHANGED others
     /\ UNCHANGED << state, letters, centerLetter, foundWords, score,
                     lastMessageType, puzzleIndex, children >>
  \/ Dropped("DELETE_LETTER")

DELETE_LETTER ==
  \/ /\ state = "playing"
     /\ IF Len(currentInput) = 0
          THEN UNCHANGED << currentInput, lastMessage >>
          ELSE /\ currentInput' = SubSeq(currentInput, 1, Len(currentInput) - 1)
               /\ lastMessage' = NoMsg
     /\ lastEvent' = "DELETE_LETTER"
     /\ UNCHANGED others
     /\ UNCHANGED << state, letters, centerLetter, foundWords, score,
                     lastMessageType, puzzleIndex, children >>
  \/ Dropped("DELETE_LETTER")

\* clearInput resetting the kind of the message as well
CLEAR_info ==
  \/ /\ state = "playing"
     /\ currentInput' = <<>>
     /\ lastMessage' = NoMsg
     /\ lastMessageType' = "info"
     /\ lastEvent' = "CLEAR"
     /\ UNCHANGED others
     /\ UNCHANGED << state, letters, centerLetter, foundWords, score,
                     puzzleIndex, children >>
  \/ Dropped("CLEAR")

CLEAR ==
  \/ /\ state = "playing"
     /\ currentInput' = <<>>
     /\ lastMessage' = NoMsg
     /\ lastEvent' = "CLEAR"
     /\ UNCHANGED others
     /\ UNCHANGED << state, letters, centerLetter, foundWords, score,
                     lastMessageType, puzzleIndex, children >>
  \/ Dropped("CLEAR")

\* entering `validating` invokes validateWord on the context as it is after
\* the actions of the transition
EnterValidating(word) ==
  /\ state' = "validating"
  /\ children' = Append(children,
                        validateWordStart(word, letters, centerLetter, foundWords))

\* SUBMIT handled in `validating` too: a second validateWord is invoked
SUBMIT_m ==
  /\ IF Len(currentInput) >= 4
       THEN /\ EnterValidating(currentInput)
            /\ UNCHANGED << lastMessage, lastMessageType >>
       ELSE /\ lastMessage' = Msg("Word must be at least 4 letters", "", 0)
            /\ lastMessageType' = "error"
            /\ UNCHANGED << state, children >>
  /\ lastEvent' = "SUBMIT"
  /\ UNCHANGED others
  /\ UNCHANGED << letters, centerLetter, currentInput, foundWords, score,
                  puzzleIndex >>

\* SUBMIT with the length guard off by one
SUBMIT_short ==
  \/ /\ state = "playing"
     /\ IF Len(currentInput) >= 3
          THEN /\ EnterValidating(currentInput)
               /\ UNCHANGED << lastMessage, lastMessageType >>
          ELSE /\ lastMessage' = Msg("Word must be at least 4 letters", "", 0)
               /\ lastMessageType' = "error"
               /\ UNCHANGED << state, children >>
     /\ lastEvent' = "SUBMIT"
     /\ UNCHANGED others
     /\ UNCHANGED << letters, centerLetter, currentInput, foundWords, score,
                     puzzleIndex >>
  \/ Dropped("SUBMIT")

SUBMIT ==
  \/ /\ state = "playing"
     /\ IF Len(currentInput) >= 4
          THEN /\ EnterValidating(currentInput)
               /\ UNCHANGED << lastMessage, lastMessageType >>
          ELSE /\ lastMessage' = Msg("Word must be at least 4 letters", "", 0)
               /\ lastMessageType' = "error"
               /\ UNCHANGED << state, children >>
     /\ lastEvent' = "SUBMIT"
     /\ UNCHANGED others
     /\ UNCHANGED << letters, centerLetter, currentInput, foundWords, score,
                     puzzleIndex >>
  \/ Dropped("SUBMIT")

\* setWord filtering the word as sent, the guard still upper-casing it
SUBMIT_WORD_rawSet(word) ==
  \/ /\ state = "playing"
     /\ IF Len(validLetters(word, letters)) >= 4
          THEN /\ currentInput' = SelectSeq(word, LAMBDA l : includes(letters, l))
               /\ EnterValidating(currentInput')
               /\ UNCHANGED << lastMessage, lastMessageType >>
          ELSE /\ lastMessage' =
                    Msg("Word must be at least 4 valid letters", "", 0)
               /\ lastMessageType' = "error"
               /\ UNCHANGED << state, children, currentInput >>
     /\ lastEvent' = "SUBMIT_WORD"
     /\ UNCHANGED others
     /\ UNCHANGED << letters, centerLetter, foundWords, score, puzzleIndex >>
  \/ Dropped("SUBMIT_WORD")

\* the SUBMIT_WORD guard counting the characters sent, not those kept
SUBMIT_WORD_rawGuard(word) ==
  \/ /\ state = "playing"
     /\ IF Len(word) >= 4
          THEN /\ currentInput' = validLetters(word, letters)
               /\ EnterValidating(currentInput')
               /\ UNCHANGED << lastMessage, lastMessageType >>
          ELSE /\ lastMessage' =
                    Msg("Word must be at least 4 valid letters", "", 0)
               /\ lastMessageType' = "error"
               /\ UNCHANGED << state, children, currentInput >>
     /\ lastEvent' = "SUBMIT_WORD"
     /\ UNCHANGED others
     /\ UNCHANGED << letters, centerLetter, foundWords, score, puzzleIndex >>
  \/ Dropped("SUBMIT_WORD")

\* setWord adding the kept letters to what was typed before
onSUBMIT_WORD_append(word) ==
  /\ IF state = "playing"
       THEN IF Len(validLetters(word, letters)) >= 4
              THEN /\ currentInput' = currentInput \o validLetters(word, letters)
                   /\ EnterValidating(currentInput')
                   /\ UNCHANGED << lastMessage, lastMessageType >>
              ELSE /\ lastMessage' =
                        Msg("Word must be at least 4 valid letters", "", 0)
                   /\ lastMessageType' = "error"
                   /\ UNCHANGED << state, children, currentInput >>
       ELSE UNCHANGED << state, children, currentInput, lastMessage,
                         lastMessageType >>
  /\ lastEvent' = "SUBMIT_WORD"
  /\ UNCHANGED << letters, centerLetter, foundWords, score, puzzleIndex >>

\* what the machine does with a SUBMIT_WORD event, whoever sent it:
\* playing.on.SUBMIT_WORD (guard, setWord, target `validating`, or the
\* message of the second branch); in `validating` the event is dropped
onSUBMIT_WORD(word) ==
  /\ IF state = "playing"
       THEN IF Len(validLetters(word, letters)) >= 4
              THEN /\ currentInput' = validLetters(word, letters)
                   /\ EnterValidating(currentInput')
                   /\ UNCHANGED << lastMessage, lastMessageType >>
              ELSE /\ lastMessage' =
                        Msg("Word must be at least 4 valid letters", "", 0)
                   /\ lastMessageType' = "error"
                   /\ UNCHANGED << state, children, currentInput >>
       ELSE UNCHANGED << state, children, currentInput, lastMessage,
                         lastMessageType >>
  /\ lastEvent' = "SUBMIT_WORD"
  /\ UNCHANGED << letters, centerLetter, foundWords, score, puzzleIndex >>

SUBMIT_WORD(word) ==
  /\ onSUBMIT_WORD(word)
  /\ UNCHANGED others

\* the reset that leaves the score of the round before
resetForNewPuzzle_keepScore ==
  LET puzzle == getPuzzle(puzzleIndex + 1)
  IN  /\ letters' = puzzle.letters
      /\ centerLetter' = puzzle.centerLetter
      /\ currentInput' = <<>>
      /\ foundWords' = <<>>
      /\ score' = score
      /\ lastMessage' = NoMsg
      /\ lastMessageType' = "info"
      /\ puzzleIndex' = (puzzleIndex + 1) % 10

\* the reset that shows the puzzle at puzzleIndex again
resetForNewPuzzle_stale ==
  LET puzzle == getPuzzle(puzzleIndex)
  IN  /\ letters' = puzzle.letters
      /\ centerLetter' = puzzle.centerLetter
      /\ currentInput' = <<>>
      /\ foundWords' = <<>>
      /\ score' = 0
      /\ lastMessage' = NoMsg
      /\ lastMessageType' = "info"
      /\ puzzleIndex' = (puzzleIndex + 1) % 10

\* the reset that leaves what was typed on the puzzle before
resetForNewPuzzle_keepInput ==
  LET puzzle == getPuzzle(puzzleIndex + 1)
  IN  /\ letters' = puzzle.letters
      /\ centerLetter' = puzzle.centerLetter
      /\ currentInput' = currentInput
      /\ foundWords' = <<>>
      /\ score' = 0
      /\ lastMessage' = NoMsg
      /\ lastMessageType' = "info"
      /\ puzzleIndex' = (puzzleIndex + 1) % 10

resetForNewPuzzle ==
  LET puzzle == getPuzzle(puzzleIndex + 1)
  IN  /\ letters' = puzzle.letters
      /\ centerLetter' = puzzle.centerLetter
      /\ currentInput' = <<>>
      /\ foundWords' = <<>>
      /\ score' = 0
      /\ lastMessage' = NoMsg
      /\ lastMessageType' = "info"
      /\ puzzleIndex' = (puzzleIndex + 1) % 10

\* NEW_PUZZLE handled in `validating` too, the invoked actor running on
NEW_PUZZLE_m ==
  /\ resetForNewPuzzle
  /\ lastEvent' = "NEW_PUZZLE"
  /\ UNCHANGED others
  /\ UNCHANGED << state, children >>

NEW_PUZZLE ==
  \/ /\ state = "playing"
     /\ resetForNewPuzzle
     /\ lastEvent' = "NEW_PUZZLE"
     /\ UNCHANGED others
     /\ UNCHANGED << state, children >>
  \/ Dropped("NEW_PUZZLE")

\* validateWordDictionary answers the actor that awaits it
DictionaryReturns ==
  \E i \in 1..Len(children) :
    /\ children[i].status = "awaitingDictionary"
    /\ \E isValidWord \in validateWordDictionary(children[i].input.word) :
         children' = [children EXCEPT
                        ![i].status = "resolved",
                        ![i].output = validateWordResume(children[i].input,
                                                         isValidWord)]
    /\ lastEvent' = "dictionary.return"
    /\ UNCHANGED others
    /\ UNCHANGED << state, context >>

\* the awaited lookup throws: the promise of the actor is rejected
DictionaryThrows ==
  \E i \in 1..Len(children) :
    /\ children[i].status = "awaitingDictionary"
    /\ children' = [children EXCEPT ![i].status = "rejected"]
    /\ lastEvent' = "dictionary.throw"
    /\ UNCHANGED others
    /\ UNCHANGED << state, context >>

\* the score is overwritten with the points of the word, not increased
recordValid_m(result) ==
  /\ foundWords' = sort(Append(foundWords, result.word))
  /\ score' = result.points
  /\ currentInput' = <<>>
  /\ lastMessage' = result.message
  /\ lastMessageType' = IF result.isPangram THEN "pangram" ELSE "success"

\* the word is appended to foundWords and the list left as it is
recordValid_unsorted(result) ==
  /\ foundWords' = Append(foundWords, result.word)
  /\ score' = score + result.points
  /\ currentInput' = <<>>
  /\ lastMessage' = result.message
  /\ lastMessageType' = IF result.isPangram THEN "pangram" ELSE "success"

\* one point for every word
recordValid_flat(result) ==
  /\ foundWords' = sort(Append(foundWords, result.word))
  /\ score' = score + 1
  /\ currentInput' = <<>>
  /\ lastMessage' = result.message
  /\ lastMessageType' = IF result.isPangram THEN "pangram" ELSE "success"

\* onDone, first branch (guard isValidWord): the word is recorded
recordValid(result) ==
  /\ foundWords' = sort(Append(foundWords, result.word))
  /\ score' = score + result.points
  /\ currentInput' = <<>>
  /\ lastMessage' = result.message
  /\ lastMessageType' = IF result.isPangram THEN "pangram" ELSE "success"

\* the refusal forgets to set the kind of the message
recordInvalid_m(result) ==
  /\ currentInput' = <<>>
  /\ lastMessage' = IF result.valid THEN NoMsg ELSE result.reason
  /\ UNCHANGED << lastMessageType, foundWords, score >>

\* the refusal leaves the refused word in currentInput
recordInvalid_keepInput(result) ==
  /\ lastMessage' = IF result.valid THEN NoMsg ELSE result.reason
  /\ lastMessageType' = "error"
  /\ UNCHANGED << currentInput, foundWords, score >>

\* onDone, second branch: the word is refused with the reason of the result
recordInvalid(result) ==
  /\ currentInput' = <<>>
  /\ lastMessage' = IF result.valid THEN NoMsg ELSE result.reason
  /\ lastMessageType' = "error"
  /\ UNCHANGED << foundWords, score >>

\* onDone without its second branch: only a valid result leaves `validating`
onDone_m ==
  /\ state = "validating"
  /\ children # <<>>
  /\ children[1].status = "resolved"
  /\ children[1].output.valid
  /\ recordValid(children[1].output)
  /\ state' = "playing"
  /\ children' = Tail(children)
  /\ lastEvent' = "xstate.done.actor"
  /\ UNCHANGED others
  /\ UNCHANGED << letters, centerLetter, puzzleIndex >>

onDone ==
  /\ state = "validating"
  /\ children # <<>>
  /\ children[1].status = "resolved"
  /\ IF children[1].output.valid
       THEN recordValid(children[1].output)
       ELSE recordInvalid(children[1].output)
  /\ state' = "playing"
  /\ children' = Tail(children)
  /\ lastEvent' = "xstate.done.actor"
  /\ UNCHANGED others
  /\ UNCHANGED << letters, centerLetter, puzzleIndex >>

\* onError failing open: the unchecked word is recorded as found
onError_m ==
  /\ state = "validating"
  /\ children # <<>>
  /\ children[1].status = "rejected"
  /\ recordValid(ValidResult(currentInput, letters))
  /\ state' = "playing"
  /\ children' = Tail(children)
  /\ lastEvent' = "xstate.error.actor"
  /\ UNCHANGED others
  /\ UNCHANGED << letters, centerLetter, puzzleIndex >>

onError ==
  /\ state = "validating"
  /\ children # <<>>
  /\ children[1].status = "rejected"
  /\ currentInput' = <<>>
  /\ lastMessage' = Msg("Failed to validate word", "", 0)
  /\ lastMessageType' = "error"
  /\ state' = "playing"
  /\ children' = Tail(children)
  /\ lastEvent' = "xstate.error.actor"
  /\ UNCHANGED others
  /\ UNCHANGED << letters, centerLetter, foundWords, score, puzzleIndex >>

Next ==
  \/ \E l \in AddLetters : ADD_LETTER(l)
  \/ DELETE_LETTER
  \/ CLEAR
  \/ SUBMIT
  \/ \E word \in SubmitWords : SUBMIT_WORD(word)
  \/ NEW_PUZZLE
  \/ DictionaryReturns
  \/ DictionaryThrows
  \/ onDone
  \/ onError

Spec == Init /\ [][Next]_vars

\* the invoked promise settles and its completion is delivered
FairSpec ==
  /\ Spec
  /\ WF_vars(DictionaryReturns \/ DictionaryThrows)
  /\ WF_vars(onDone)
  /\ WF_vars(onError)

\* ------------------------------------------------------------------------
\* mechanics.ts called directly (index.ts exports its functions; agent.ts
\* and benchmark.ts call them outside the machine)
\* ------------------------------------------------------------------------

\* a caller has called fn with args and got result
Call(fn, args, result) == [fn |-> fn, args |-> args, result |-> result]

\* a call leaves the machine alone
machine == << state, context, children, lastEvent >>

\* the words a caller asks the dictionary about
LookupWords ==
  { <<"r", "a", "c", "k">>, <<"R", "A", "C", "K">>, <<"x", "x", "x", "x">> }

validateWordDictionaryApiCall ==
  \E word \in LookupWords, fetch \in FetchOutcomes :
    /\ mech = NoCall
    /\ mech' = Call("validateWordDictionaryApi", [word |-> word, fetch |-> fetch],
           validateWordDictionaryApi(word, fetch))
    /\ UNCHANGED << machine, agent, transport, engine, pinpoint >>

validateWordDictionaryLocalCall ==
  \E word \in LookupWords, file \in FileOutcomes, fetch \in FetchOutcomes :
    /\ mech = NoCall
    /\ mech' = Call("validateWordDictionaryLocal",
           [word |-> word, file |-> file, fetch |-> fetch],
           validateWordDictionaryLocal(word, file, fetch))
    /\ UNCHANGED << machine, agent, transport, engine, pinpoint >>

\* the words a caller passes to the functions of mechanics.ts
MechWords ==
  { <<>>,
    <<"k", "i", "n">>,
    <<"r", "a", "c", "k">>,
    <<"R", "A", "C", "K">>,
    <<"r", "a", "i", "n">>,
    <<"k", "i", "c", "k">>,
    <<"c", "r", "a", "c", "k">>,
    <<"r", "a", "c", "k", "z">>,
    <<"r", "a", "c", "k", "i", "n", "g">>,
    <<"R", "a", "c", "k", "i", "n", "g">>,
    <<"c", "r", "a", "c", "k", "i", "n", "g">>,
    <<"p", "l", "a", "y", "i", "n", "g">>,
    <<"m", "a", "r", "k", "e", "t", "s">>,
    <<"g", "n", "i", "k", "c", "a", "r">>,
    <<"z", "z", "z", "z">> }

\* the letters a caller passes: those of a puzzle of the catalog, or the
\* letters of the first puzzle in lower case
MechLetters ==
  { PUZZLES[i].letters : i \in 1..Len(PUZZLES) }
  \cup { <<"r", "a", "c", "k", "i", "n", "g">> }

calculateWordScoreCall ==
  \E word \in MechWords, ltrs \in MechLetters :
    /\ mech = NoCall
    /\ mech' = Call("calculateWordScore", [word |-> word, letters |-> ltrs],
           calculateWordScore(word, ltrs))
    /\ UNCHANGED << machine, agent, transport, engine, pinpoint >>

\* the words found so far that a caller passes to validateWordRules
MechFound ==
  { <<>>,
    << <<"r", "a", "c", "k">> >>,
    << <<"k", "i", "n">>,
       <<"r", "a", "i", "n">>,
       <<"r", "a", "c", "k", "z">>,
       <<"z", "z", "z", "z">> >> }

validateWordRulesCall ==
  \E word \in MechWords, i \in 1..Len(PUZZLES), found \in MechFound :
    /\ mech = NoCall
    /\ mech' = Call("validateWordRules",
           [word |-> word, letters |-> PUZZLES[i].letters,
            centerLetter |-> PUZZLES[i].centerLetter, foundWords |-> found],
           validateWordRules(word, PUZZLES[i].letters,
                             PUZZLES[i].centerLetter, found))
    /\ UNCHANGED << machine, agent, transport, engine, pinpoint >>

isPangramCall ==
  \E word \in MechWords, ltrs \in MechLetters :
    /\ mech = NoCall
    /\ mech' = Call("isPangram", [word |-> word, letters |-> ltrs],
           isPangram(word, ltrs))
    /\ UNCHANGED << machine, agent, transport, engine, pinpoint >>

\* the letters and the center letters a caller passes to createCustomPuzzle
CustomLetters ==
  { <<"R", "A", "C", "K", "I", "N", "G">>,
    <<"r", "a", "c", "k", "i", "n", "g">>,
    <<"R", "a", "C", "k", "I", "n", "G">>,
    <<"R", "A", "C", "K", "I", "N">>,
    <<"R", "A", "C", "K", "I", "N", "G", "S">>,
    <<"R", "A", "C", "K", "I", "N", "N">>,
    <<"r", "A", "C", "K", "I", "N", "R">>,
    <<>> }

CustomCenters == {"K", "k", "R", "N", "Z"}

createCustomPuzzleCall ==
  \E ltrs \in CustomLetters, center \in CustomCenters :
    /\ mech = NoCall
    /\ mech' = Call("createCustomPuzzle", [letters |-> ltrs, centerLetter |-> center],
           createCustomPuzzle(ltrs, center))
    /\ UNCHANGED << machine, agent, transport, engine, pinpoint >>

\* the indexes a caller passes to getPuzzle
getPuzzleCall ==
  \E index \in (0 - MaxIndex)..MaxIndex :
    /\ mech = NoCall
    /\ mech' = Call("getPuzzle", [index |-> index], getPuzzle(index))
    /\ UNCHANGED << machine, agent, transport, engine, pinpoint >>

MechNext ==
  \/ validateWordDictionaryApiCall
  \/ validateWordDictionaryLocalCall
  \/ calculateWordScoreCall
  \/ validateWordRulesCall
  \/ isPangramCall
  \/ createCustomPuzzleCall
  \/ getPuzzleCall

Mechanics == Init /\ [][MechNext]_vars

\* ------------------------------------------------------------------------
\* agent.ts, benchmark.ts: the submitWord helper of the agents
\* ------------------------------------------------------------------------

\* no result yet
NoResult ==
  [accepted |-> FALSE, pointsEarned |-> 0, message |-> NoMsg, newScore |-> 0,
   foundWords |-> << >>]

\* what submitWord returns, computed from the snapshot it reads last
submitWordResult(prevScore, snapshot) ==
  [accepted |-> snapshot.score > prevScore,
   pointsEarned |-> snapshot.score - prevScore,
   message |-> snapshot.lastMessage,
   newScore |-> snapshot.score,
   foundWords |-> snapshot.foundWords]

\* submitWord(word) up to its first await: prevScore is read, the event is
\* sent, and the loop is entered only if the machine is validating; if it is
\* not, the result is computed at once.  letters and foundBefore are not in
\* the code: they note the puzzle and the words found when the call was
\* made.
submitWord(word) ==
  /\ Len(agent) < MaxCalls
  /\ onSUBMIT_WORD(word)
  /\ agent' = Append(agent,
       [word |-> word, prevScore |-> score, letters |-> letters,
        foundBefore |-> foundWords,
        status |-> IF state' = "validating" THEN "waiting" ELSE "returned",
        result |-> IF state' = "validating"
                     THEN NoResult
                     ELSE submitWordResult(score,
                            [score |-> score', lastMessage |-> lastMessage',
                             foundWords |-> foundWords'])])
  /\ UNCHANGED << mech, transport, engine, pinpoint >>

\* a timer of the waiting loop fires and the machine is not validating:
\* the call returns (a timer that finds it validating changes nothing)
submitWordPoll ==
  \E i \in 1..Len(agent) :
    /\ agent[i].status = "waiting"
    /\ state # "validating"
    /\ agent' = [agent EXCEPT
         ![i].status = "returned",
         ![i].result = submitWordResult(agent[i].prevScore,
                         [score |-> score, lastMessage |-> lastMessage,
                          foundWords |-> foundWords])]
    /\ UNCHANGED << machine, mech, transport, engine, pinpoint >>

\* an agent run: tool calls of one step are executed without waiting for
\* each other, the dictionary answers, the machine completes
AgentNext ==
  \/ \E word \in SubmitWords : submitWord(word)
  \/ submitWordPoll
  \/ DictionaryReturns
  \/ DictionaryThrows
  \/ onDone
  \/ onError

Agents == Init /\ [][AgentNext]_vars

\* ------------------------------------------------------------------------
\* in-process.ts: the pair of in-process transports
\* ------------------------------------------------------------------------

\* the client transport and the server transport
Sides == {"client", "server"}

\* the handlers passed to onMessage
Handlers == {"h1", "h2"}

\* constructor arguments: the client sends on queue A and receives on
\* queue B, the server the other way round
sendQueue(side) == IF side = "client" THEN "queueA" ELSE "queueB"

receiveQueue(side) == IF side = "client" THEN "queueB" ELSE "queueA"

\* the side whose handler reads the queue
receiver(queue) == IF queue = "queueA" THEN "server" ELSE "client"

\* send on a connected transport: the message is not handed over at once, a
\* microtask is queued that will look for the handler.  (On a disconnected
\* transport send throws and changes nothing.)  The message is named by its
\* sender and its number among the messages of that sender.
send(side) ==
  /\ transport.sent.client + transport.sent.server < MaxSent
  /\ transport.connected[side]
  /\ transport' =
       [transport EXCEPT
          !.sent[side] = @ + 1,
          !.microtasks =
             Append(@, [kind |-> "send", queue |-> sendQueue(side),
                        handler |-> null,
                        message |-> [from |-> side,
                                     n |-> transport.sent[side] + 1]])]
  /\ UNCHANGED << machine, mech, agent, engine, pinpoint >>

\* the microtasks onMessage queues for the messages waiting in the queue
deliveries(queue, handler, messages) ==
  [i \in 1..Len(messages) |->
     [kind |-> "deliver", queue |-> queue, handler |-> handler,
      message |-> messages[i]]]

\* onMessage: the handler is registered, the queued messages are taken out
\* and a microtask is queued for each, in their order
onMessage(side, handler) ==
  LET queue == receiveQueue(side)
  IN  /\ transport' =
           [transport EXCEPT
              ![queue].handler = handler,
              ![queue].messages = << >>,
              !.microtasks =
                 @ \o deliveries(queue, handler, transport[queue].messages)]
      /\ transport' # transport
      /\ UNCHANGED << machine, mech, agent, engine, pinpoint >>

\* the handler is called with the message
handlerCalled(queue, handler, message) ==
  [transport EXCEPT
     !.microtasks = Tail(@),
     !.received[receiver(queue)] =
        Append(@, [handler |-> handler, message |-> message])]

\* the oldest microtask runs: the one queued by send calls the handler
\* registered by now, or puts the message in the queue if there is none; the
\* one queued by onMessage calls the handler it was queued with
runMicrotask ==
  /\ transport.microtasks # << >>
  /\ LET task == Head(transport.microtasks)
         queue == transport[task.queue]
     IN  transport' =
           IF task.kind = "deliver"
             THEN handlerCalled(task.queue, task.handler, task.message)
           ELSE IF queue.handler # null
             THEN handlerCalled(task.queue, queue.handler, task.message)
           ELSE [transport EXCEPT
                   !.microtasks = Tail(@),
                   ![task.queue].messages = Append(@, task.message)]
  /\ UNCHANGED << machine, mech, agent, engine, pinpoint >>

\* disconnect: the transport refuses to send from now on
disconnect(side) ==
  /\ transport.connected[side]
  /\ transport' = [transport EXCEPT !.connected[side] = FALSE]
  /\ UNCHANGED << machine, mech, agent, engine, pinpoint >>

\* code of the process calls the transports, and between two calls the
\* microtasks queued so far may or may not have run
TransportNext ==
  \/ \E side \in Sides : send(side)
  \/ \E side \in Sides, handler \in Handlers : onMessage(side, handler)
  \/ runMicrotask
  \/ \E side \in Sides : disconnect(side)

TransportPair == Init /\ [][TransportNext]_vars

\* ------------------------------------------------------------------------
\* base-machine.ts: GameEngine with an asynchronous action processor
\* ------------------------------------------------------------------------

\* the game the engine is configured with: an action adds to value, and the
\* game is over when value has reached Target
EngineActions == {0, 1, 2}

Target == 3

\* config.validateAction: no action is legal once the game is over
validateAction(ctx, action) == action > 0 /\ ctx.value < Target

\* config.isTerminal
isTerminal(ctx) == ctx.value >= Target

\* what processActionAsync can answer for the context and the action it
\* was called with: a result with or without updates, valid or not, with
\* or without an error text, or a rejected promise
ProcessResults(ctx, action) ==
  { [settled |-> "resolved", valid |-> v, hasUpdates |-> u,
     updates |-> [value |-> ctx.value + action], error |-> e] :
      v \in BOOLEAN, u \in BOOLEAN, e \in {"undefined", "Not allowed"} }
  \cup
  { [settled |-> "rejected", valid |-> FALSE, hasUpdates |-> FALSE,
     updates |-> [value |-> ctx.value], error |-> "undefined"] }

\* { ...ctx, ...updates } when the result has updates
merge(ctx, result) ==
  IF result.hasUpdates
    THEN [ctx EXCEPT !.value = result.updates.value]
    ELSE ctx

\* start()
start ==
  /\ engine.phase = "idle"
  /\ engine' = [engine EXCEPT !.phase = "playing"]
  /\ UNCHANGED << machine, mech, agent, transport, pinpoint >>

\* step(playerId, action) up to its await: outside `playing` it returns an
\* error and changes nothing; prevContext is set; an invalid action ends the
\* call; otherwise the phase is `processing` and processActionAsync is
\* called with the context as it is now
step(action) ==
  /\ engine.phase = "playing"
  /\ Len(engine.pending) < MaxPending
  /\ engine.context.step < MaxSteps
  /\ engine' =
       IF ~validateAction(engine.context, action)
         THEN [engine EXCEPT !.prevContext = << engine.context >>]
         ELSE [engine EXCEPT
                 !.prevContext = << engine.context >>,
                 !.phase = "processing",
                 !.pending = Append(@, [context |-> engine.context,
                                        action |-> action])]
  /\ engine' # engine
  /\ UNCHANGED << machine, mech, agent, transport, pinpoint >>

\* the engine after the rest of step has run on the result of
\* processActionAsync
stepResumed(eng, result) ==
  IF result.settled = "rejected"
    THEN [eng EXCEPT !.phase = "playing",
                     !.context.lastError = "Processing failed"]
  ELSE IF ~result.valid
    THEN [eng EXCEPT
            !.phase = "playing",
            !.context =
               merge([eng.context EXCEPT
                        !.lastError = IF result.error = "undefined"
                                        THEN "Action rejected"
                                        ELSE result.error],
                     result)]
  ELSE LET updated ==
             IF result.hasUpdates
               THEN [merge(eng.context, result) EXCEPT
                       !.step = eng.context.step + 1,
                       !.lastError = null]
               ELSE eng.context
       IN  [eng EXCEPT
              !.phase = IF isTerminal(updated) THEN "ended" ELSE "playing",
              !.context = updated]

\* processActionAsync settles for one of the waiting calls of step, and the
\* call runs to its end
stepResumes ==
  \E i \in 1..Len(engine.pending) :
    \E result \in ProcessResults(engine.pending[i].context,
                                 engine.pending[i].action) :
      /\ engine' =
           stepResumed(
             [engine EXCEPT
                !.pending = SubSeq(@, 1, i - 1) \o SubSeq(@, i + 1, Len(@))],
             result)
      /\ UNCHANGED << machine, mech, agent, transport, pinpoint >>

\* reset(): a new initial context, phase `idle`; the calls of step that are
\* waiting are not touched
reset ==
  /\ engine' = [engine EXCEPT
                  !.context = createInitialContext,
                  !.phase = "idle",
                  !.prevContext = << >>]
  /\ engine' # engine
  /\ UNCHANGED << machine, mech, agent, transport, pinpoint >>

EngineNext ==
  \/ start
  \/ \E action \in EngineActions : step(action)
  \/ stepResumes
  \/ reset

Engine == Init /\ [][EngineNext]_vars

\* ------------------------------------------------------------------------
\* pinpoint mechanics.ts: the Pinpoint machine
\* ------------------------------------------------------------------------

\* the catalog; correctAnswer is written character by character because
\* the guard compares it after toLowerCase and trim
PINPOINT_GAMES ==
  <<
    [ inputWords |-> << "Feather", "Lead", "Anchor", "Responsibility", "Dumbbell" >>,
      correctAnswer |->
         << "W", "e", "i", "g", "h", "t" >> ],
    [ inputWords |-> << "Carbon", "Pressure", "Ring", "Baseball", "Rough" >>,
      correctAnswer |->
         << "D", "i", "a", "m", "o", "n", "d" >> ],
    [ inputWords |-> << "Nile", "Amazon", "Mississippi", "Danube", "Ganges" >>,
      correctAnswer |->
         << "R", "i", "v", "e", "r", "s" >> ],
    [ inputWords |-> << "Crust", "Mantle", "Core", "Atmosphere", "Lithosphere" >>,
      correctAnswer |->
         << "E", "a", "r", "t", "h", " ", "L", "a", "y", "e", "r", "s" >> ],
    [ inputWords |-> << "Bark", "Ring", "Trunk", "Leaf", "Root" >>,
      correctAnswer |->
         << "T", "r", "e", "e" >> ],
    [ inputWords |-> << "Knight", "Rook", "Pawn", "Bishop", "Queen" >>,
      correctAnswer |->
         << "C", "h", "e", "s", "s", " ", "P", "i", "e", "c", "e", "s" >> ],
    [ inputWords |-> << "Mercury", "Venus", "Mars", "Jupiter", "Saturn" >>,
      correctAnswer |->
         << "P", "l", "a", "n", "e", "t", "s" >> ],
    [ inputWords |-> << "Cheddar", "Gouda", "Brie", "Mozzarella", "Parmesan" >>,
      correctAnswer |->
         << "C", "h", "e", "e", "s", "e" >> ],
    [ inputWords |-> << "Violin", "Cello", "Harp", "Guitar", "Banjo" >>,
      correctAnswer |->
         << "S", "t", "r", "i", "n", "g", " ", "I", "n", "s", "t", "r",
            "u", "m", "e", "n", "t", "s" >> ],
    [ inputWords |-> << "Tokyo", "Paris", "London", "Cairo", "Berlin" >>,
      correctAnswer |->
         << "C", "a", "p", "i", "t", "a", "l", " ", "C", "i", "t", "i",
            "e", "s" >> ]
  >>

calculateScore(guessCount) ==
  CASE guessCount = 1 -> 10
    [] guessCount = 2 -> 5
    [] guessCount = 3 -> 2
    [] OTHER -> 0

\* String.prototype.trim for strings whose only white space is the space
trim(w) ==
  LET inked == {i \in 1..Len(w) : w[i] # " "}
  IN  IF inked = {}
        THEN << >>
        ELSE SubSeq(w, CHOOSE i \in inked : \A j \in inked : i <= j,
                       CHOOSE i \in inked : \A j \in inked : j <= i)

\* the guesses sent for a game: the answer as written, the answer in upper
\* case with spaces around it, and a wrong guess
Guesses(gameIndex) ==
  LET answer == PINPOINT_GAMES[gameIndex + 1].correctAnswer
  IN  { answer,
        << " " >> \o toUpperCase(answer) \o << " ", " " >>,
        << "S", "t", "o", "n", "e", "s" >> }

\* action addNextHint
addNextHint(ctx) ==
  LET game == PINPOINT_GAMES[ctx.gameIndex + 1]
      nextHintIndex == Len(ctx.hintWords)
  IN  IF nextHintIndex < Len(game.inputWords)
        THEN [ctx EXCEPT
                !.hintWords = Append(@, game.inputWords[nextHintIndex + 1])]
        ELSE ctx

\* guard isGuessCorrect
isGuessCorrect(ctx) ==
  LET game == PINPOINT_GAMES[ctx.gameIndex + 1]
      currentGuess ==
        trim(toLowerCase(ctx.currentGuesses[Len(ctx.currentGuesses)]))
  IN  trim(toLowerCase(game.correctAnswer)) = currentGuess

\* the guard letting a sixth hint be asked for
isNextOptionAvailable_six(ctx) ==
  Len(ctx.hintWords) <= Len(PINPOINT_GAMES[ctx.gameIndex + 1].inputWords)

\* guard isNextOptionAvailable
isNextOptionAvailable(ctx) ==
  Len(ctx.hintWords) < Len(PINPOINT_GAMES[ctx.gameIndex + 1].inputWords)

\* action logWin
logWin(ctx) ==
  [ctx EXCEPT !.overallScore = @ + calculateScore(Len(ctx.currentGuesses))]

\* createActor(pinpointGame, { input }) and start: the context is made, and
\* the machine passes through `start`, whose entry action reveals the first
\* hint, into `playing`
createActor(gameIndex) ==
  /\ pinpoint.value = "notCreated"
  /\ pinpoint' =
       [addNextHint([NotCreated EXCEPT !.gameIndex = gameIndex])
          EXCEPT !.value = "playing"]
  /\ UNCHANGED << machine, mech, agent, transport, engine >>

\* MAKE_GUESS in `playing`, with the eventless transitions that follow it:
\* the guess is recorded; in `validating` a correct guess wins, otherwise a
\* further hint is revealed on the way back to `playing` if there is one,
\* otherwise the game is lost.  (The machine defines no transition for
\* VALIDATE_GUESS, NEXT_OPTION and FINISH_GAME, nor for MAKE_GUESS in
\* `finished`.)
MAKE_GUESS(guess) ==
  /\ pinpoint.value = "playing"
  /\ LET guessed == [pinpoint EXCEPT !.currentGuesses = Append(@, guess)]
     IN  pinpoint' =
           IF isGuessCorrect(guessed)
             THEN [logWin(guessed) EXCEPT !.value = "finished"]
           ELSE IF isNextOptionAvailable(guessed)
             THEN [addNextHint(guessed) EXCEPT !.value = "playing"]
           ELSE [guessed EXCEPT !.value = "finished"]
  /\ UNCHANGED << machine, mech, agent, transport, engine >>

PinpointNext ==
  \/ \E gameIndex \in 0..(Len(PINPOINT_GAMES) - 1) : createActor(gameIndex)
  \/ \E guess \in Guesses(pinpoint.gameIndex) : MAKE_GUESS(guess)

Pinpoint == Init /\ [][PinpointNext]_vars

\* ------------------------------------------------------------------------
\* Properties
\* ------------------------------------------------------------------------

rack == <<"r", "a", "c", "k">>

cracking == <<"c", "r", "a", "c", "k", "i", "n", "g">>

Completion == {"xstate.done.actor", "xstate.error.actor"}

DuplicateIdempotent ==
  /\ [](\A i, j \in 1..Len(foundWords) : foundWords[i] = foundWords[j] => i = j)
  /\ [][lastEvent' \in Completion
        /\ includes(foundWords, toLowerCase(currentInput))
          => score' = score /\ foundWords' = foundWords]_vars

\* a found word was submitted again and refused
DuplicateRefused ==
  /\ lastEvent = "xstate.done.actor"
  /\ lastMessage.text = "Already found!"
  /\ foundWords = <<rack>>
  /\ score = 1

\* C3 as stated: when the dictionary throws, nothing in the context changes
\* but lastMessage and lastMessageType (= error).
FailClosedNothingElse ==
  [][lastEvent' = "xstate.error.actor"
       => /\ lastMessageType' = "error"
          /\ UNCHANGED << letters, centerLetter, currentInput, foundWords,
                          score, puzzleIndex >>]_vars

\* C3 amended: when the dictionary throws, the word is not recorded and
\* nothing in the context changes but lastMessage, lastMessageType (= error)
\* and currentInput, which is cleared; a dictionary that answers false
\* leaves foundWords and score alone as well.
FailClosed ==
  [][/\ lastEvent' = "xstate.error.actor"
          => /\ lastMessageType' = "error"
             /\ lastMessage' = Msg("Failed to validate word", "", 0)
             /\ currentInput' = <<>>
             /\ UNCHANGED << letters, centerLetter, foundWords, score,
                             puzzleIndex >>
     /\ lastEvent' = "dictionary.return" /\ ~children'[1].output.valid
          => UNCHANGED << foundWords, score >>
     /\ lastEvent' = "xstate.done.actor" /\ ~children[1].output.valid
          => UNCHANGED << foundWords, score >>]_vars

\* the dictionary threw in a round that already has a found word
FailedWithScore ==
  /\ lastEvent = "xstate.error.actor"
  /\ lastMessage.text = "Failed to validate word"
  /\ foundWords = <<rack>>

\* C4 (under FairSpec): the machine always leaves `validating`.
NeverStuck == (state = "validating") ~> (state = "playing")

\* the machine is back in `playing` after the dictionary threw
BackInPlaying ==
  /\ state = "playing"
  /\ lastEvent = "xstate.error.actor"
  /\ foundWords = <<>>
  /\ children = <<>>

\* C5 as stated: a NEW_PUZZLE takes effect in whatever state it arrives.
NewPuzzleAnywhere ==
  [][lastEvent' = "NEW_PUZZLE"
       => /\ puzzleIndex' = (puzzleIndex + 1) % 10
          /\ letters' = getPuzzle(puzzleIndex + 1).letters
          /\ centerLetter' = getPuzzle(puzzleIndex + 1).centerLetter
          /\ currentInput' = <<>>
          /\ foundWords' = <<>>
          /\ score' = 0
          /\ lastMessage' = NoMsg
          /\ lastMessageType' = "info"]_vars

\* C6: a validation in flight belongs to the current puzzle and round, and
\* a completion changes foundWords and score only of the puzzle the word
\* was submitted to.
StaleDiscarded ==
  /\ [](\A i \in 1..Len(children) :
          /\ children[i].input.letters = letters
          /\ children[i].input.centerLetter = centerLetter
          /\ children[i].input.foundWords = foundWords)
  /\ [][lastEvent' \in Completion
          => /\ letters' = children[1].input.letters
             /\ foundWords' # foundWords
                  => foundWords' = sort(Append(children[1].input.foundWords,
                                     toLowerCase(children[1].input.word)))]_vars

\* a NEW_PUZZLE arrived while a check was in flight
NewPuzzleInFlight ==
  /\ state = "validating"
  /\ lastEvent = "NEW_PUZZLE"
  /\ children[1].status = "awaitingDictionary"
  /\ foundWords # <<>>

\* C7: in `validating` the events ADD_LETTER, DELETE_LETTER, SUBMIT and
\* SUBMIT_WORD change neither the control state nor the context and start
\* no validation; after the completion nothing is replayed: the input is
\* empty and no validation runs.
IgnoredWhileValidating ==
  [][/\ state = "validating"
        /\ lastEvent' \in {"ADD_LETTER", "DELETE_LETTER", "SUBMIT", "SUBMIT_WORD"}
          => UNCHANGED << state, context, children >>
     /\ lastEvent' \in Completion
          => state' = "playing" /\ currentInput' = <<>> /\ children' = <<>>]_vars

\* a DELETE_LETTER arrived while a check was in flight
DeleteInFlight ==
  /\ state = "validating"
  /\ lastEvent = "DELETE_LETTER"
  /\ Len(currentInput) >= 4

\* C8: at most one validation is in flight, exactly when the machine is in
\* `validating`, and one is started only from `playing` with none running.
SingleInFlight ==
  /\ [](Len(children) <= 1 /\ (state = "validating" <=> Len(children) = 1))
  /\ [][Len(children') > Len(children)
          => state = "playing" /\ children = <<>>]_vars

\* a SUBMIT_WORD arrived while the check of a typed word was in flight
SubmitInFlight ==
  /\ state = "validating"
  /\ lastEvent = "SUBMIT_WORD"
  /\ currentInput = <<"K", "K", "K", "K">>
  /\ Len(children) = 1

\* C9: validateWordDictionary is called only for a word that passes every
\* local rule, and a submission shorter than 4 letters starts no validation.
RulesBeforeDictionary ==
  /\ [](\A i \in 1..Len(children) :
          children[i].dictionaryCalls > 0
            => validateWordRules(children[i].input.word, letters,
                                 centerLetter, foundWords).valid)
  /\ [][state = "playing" /\ lastEvent' \in {"SUBMIT", "SUBMIT_WORD"}
        /\ Len(currentInput') < 4
          => children' = <<>>]_vars

\* a found word was submitted again and refused without a dictionary call
RefusedWithoutCall ==
  /\ Len(children) = 1
  /\ children[1].status = "resolved"
  /\ children[1].dictionaryCalls = 0
  /\ children[1].output.reason.text = "Already found!"

SubmitInReady ==
  [][state = "playing" /\ lastEvent' = "SUBMIT"
       => IF Len(currentInput) >= 4
            THEN /\ state' = "validating"
                 /\ Len(children') = 1
                 /\ children'[1].input.word = currentInput
                 /\ currentInput' = currentInput
            ELSE /\ state' = "playing"
                 /\ lastMessage' = Msg("Word must be at least 4 letters", "", 0)
                 /\ lastMessageType' = "error"
                 /\ children' = <<>>
                 /\ UNCHANGED << currentInput, foundWords, score >>]_vars

\* three typed letters were submitted and refused in a round with a score
ShortSubmitRefused ==
  /\ state = "playing"
  /\ lastEvent = "SUBMIT"
  /\ Len(currentInput) = 3
  /\ lastMessage.text = "Word must be at least 4 letters"
  /\ score > 0

\* the positions of word whose character, in upper case, is a puzzle letter
KeptIndices(word, ltrs) ==
  {i \in 1..Len(word) :
     \E j \in 1..Len(ltrs) : ltrs[j] = toUpperCaseChar(word[i])}

\* f is word cut down to its puzzle letters, in order and in upper case
IsFiltered(f, word, ltrs) ==
  LET K == KeptIndices(word, ltrs)
  IN  /\ Len(f) = Cardinality(K)
      /\ \A i \in K :
           f[Cardinality({k \in K : k <= i})] = toUpperCaseChar(word[i])

\* C12: a SUBMIT_WORD(word) in `playing` cuts word down to the puzzle's
\* letters, keeping their order and upper-casing them; with at least 4 left
\* it enters `validating` with exactly that string as the word under test,
\* otherwise it stays in `playing` with an error and starts no validation.
FilteredSubmit ==
  [][\A w \in SubmitWords :
       state = "playing" /\ SUBMIT_WORD(w)
         => IF Cardinality(KeptIndices(w, letters)) >= 4
              THEN /\ state' = "validating"
                   /\ Len(children') = 1
                   /\ IsFiltered(children'[1].input.word, w, letters)
                   /\ currentInput' = children'[1].input.word
              ELSE /\ state' = "playing"
                   /\ lastMessageType' = "error"
                   /\ lastMessage'.text = "Word must be at least 4 valid letters"
                   /\ children' = <<>>]_vars

\* a word sent whole (rack, RACK or RAZCK) is under test as RACK, which the
\* typed letters cannot spell
FilteredUnderTest ==
  /\ state = "validating"
  /\ lastEvent = "SUBMIT_WORD"
  /\ children[1].input.word = <<"R", "A", "C", "K">>
  /\ currentInput = <<"R", "A", "C", "K">>
  /\ score > 0

\* C13 as stated: from every state in `playing` and for every word, a
\* SUBMIT_WORD(word) leaves the control state, the context and the
\* validation started as an ADD_LETTER for each character of word followed
\* by a SUBMIT would.
SubmitWordAsTyped ==
  [][\A w \in SubmitWords :
       state = "playing" /\ SUBMIT_WORD(w)
         => LET t == addLetters(currentInput, w, letters)
                m == IF t # currentInput THEN NoMsg ELSE lastMessage
            IN  /\ currentInput' = t
                /\ UNCHANGED << letters, centerLetter, foundWords, score,
                                puzzleIndex >>
                /\ IF Len(t) >= 4
                     THEN /\ state' = "validating"
                          /\ children' = << validateWordStart(t, letters,
                                               centerLetter, foundWords) >>
                          /\ lastMessage' = m
                          /\ lastMessageType' = lastMessageType
                     ELSE /\ state' = "playing"
                          /\ children' = <<>>
                          /\ lastMessage' =
                               Msg("Word must be at least 4 letters", "", 0)
                          /\ lastMessageType' = "error"]_vars

\* C13 amended: from a state in `playing` with nothing typed, and for a word
\* with at least 4 puzzle letters, a SUBMIT_WORD(word) starts the validation
\* that an ADD_LETTER for each character followed by a SUBMIT would start,
\* with the same context but for lastMessage, which typing clears and
\* SUBMIT_WORD leaves; the completion sets lastMessage from the outcome
\* alone, so that after it the two agree on control state and context.
SubmitWordAsTypedFromEmpty ==
  [][/\ \A w \in SubmitWords :
          state = "playing" /\ currentInput = <<>>
            /\ Len(addLetters(<<>>, w, letters)) >= 4 /\ SUBMIT_WORD(w)
            => LET t == addLetters(<<>>, w, letters)
               IN  /\ state' = "validating"
                   /\ currentInput' = t
                   /\ children' = << validateWordStart(t, letters,
                                        centerLetter, foundWords) >>
                   /\ UNCHANGED << letters, centerLetter, foundWords, score,
                                   puzzleIndex, lastMessageType >>
     /\ lastEvent' \in Completion
          => /\ state' = "playing"
             /\ lastMessage' =
                  IF lastEvent' = "xstate.error.actor"
                    THEN Msg("Failed to validate word", "", 0)
                    ELSE IF children[1].output.valid
                           THEN children[1].output.message
                           ELSE children[1].output.reason]_vars

\* CRACKING was sent whole with nothing typed since rack was accepted: the
\* message of that acceptance is still shown while CRACKING is under test
SentWholeAfterAccept ==
  /\ state = "validating"
  /\ lastEvent = "SUBMIT_WORD"
  /\ currentInput = toUpperCase(cracking)
  /\ foundWords = <<rack>>
  /\ lastMessage = Msg("+ point", "", 1)

\* C14: the completion of a validation whose result is valid (the rules
\* accepted the word and the dictionary answered true) adds the word, in
\* lower case, to foundWords and its score to score, and sets lastMessageType
\* to pangram when the word uses every puzzle letter, to success otherwise;
\* on RACKING/K, rack and then cracking accepted give score 16, foundWords
\* <<cracking, rack>> and lastMessageType pangram.
AcceptanceCommit ==
  /\ [](\A i \in 1..Len(children) :
          children[i].output.valid
            => /\ validateWordRules(children[i].input.word, letters,
                                    centerLetter, foundWords).valid
               /\ toLowerCase(children[i].input.word) \in Dictionary)
  /\ [][lastEvent' = "xstate.done.actor" /\ children[1].output.valid
          => LET w == toLowerCase(currentInput)
             IN  /\ Len(foundWords') = Len(foundWords) + 1
                 /\ {foundWords'[i] : i \in 1..Len(foundWords')}
                      = {foundWords[i] : i \in 1..Len(foundWords)} \cup {w}
                 /\ score' = score + calculateWordScore(w, letters)
                 /\ lastMessageType' =
                      IF \A j \in 1..Len(letters) :
                           \E i \in 1..Len(w) :
                             w[i] = toLowerCaseChar(letters[j])
                        THEN "pangram"
                        ELSE "success"]_vars
  /\ [][puzzleIndex = 0 /\ foundWords = <<rack>>
        /\ lastEvent' = "xstate.done.actor" /\ children[1].output.valid
        /\ toLowerCase(currentInput) = cracking
          => /\ score' = 16
             /\ foundWords' = <<cracking, rack>>
             /\ lastMessageType' = "pangram"]_vars

\* rack, then cracking, have been accepted on RACKING/K
RackThenCracking ==
  /\ puzzleIndex = 0
  /\ lastEvent = "xstate.done.actor"
  /\ foundWords = <<cracking, rack>>
  /\ lastMessage = Msg("PANGRAM! + points!", "", 15)
  /\ lastMessageType = "pangram"
  /\ score = 16

\* C15: once a validation has completed, whether the word was accepted,
\* refused by a rule, refused by the dictionary or the dictionary threw, and
\* until the next event, currentInput is empty and the machine is in
\* `playing`.
ClearedAfterCompletion ==
  lastEvent \in Completion => currentInput = <<>> /\ state = "playing"

\* a typed word without the center letter was refused by the rules
RefusedByRule ==
  /\ lastEvent = "xstate.done.actor"
  /\ lastMessage.text = "Must include center letter: "
  /\ currentInput = <<>>
  /\ state = "playing"
  /\ foundWords # <<>>

\* C16: every word of foundWords is in lower case, has at least 4 letters,
\* holds the center letter, is spelled with the puzzle's letters only, and
\* is a word of the dictionary.
FoundWordsAccepted ==
  \A n \in 1..Len(foundWords) :
    LET w == foundWords[n]
    IN  /\ \A i \in 1..Len(w) : includes(LowerChars, w[i])
        /\ Len(w) >= 4
        /\ \E i \in 1..Len(w) : w[i] = toLowerCaseChar(centerLetter)
        /\ \A i \in 1..Len(w) :
             \E j \in 1..Len(letters) : w[i] = toLowerCaseChar(letters[j])
        /\ w \in Dictionary

\* a typed word and a word sent whole are both found on RACKING/K
TypedAndSentFound ==
  /\ puzzleIndex = 0
  /\ foundWords = << <<"k", "i", "c", "k">>, rack >>
  /\ score = 2

\* C17: foundWords is in ascending order in every reachable state.
FoundWordsSorted ==
  \A n \in 1..(Len(foundWords) - 1) :
    ~StringLess(foundWords[n + 1], foundWords[n])

\* cracking, accepted last, stands before the two words found before it
LastFoundStandsFirst ==
  /\ lastEvent = "xstate.done.actor"
  /\ lastMessageType = "pangram"
  /\ foundWords = << cracking, <<"k", "i", "c", "k">>, rack >>

\* C18: a NEW_PUZZLE in `playing` moves puzzleIndex on by one modulo the
\* size of the catalog, takes letters and centerLetter from that entry of
\* the catalog, empties currentInput and foundWords, sets score to 0 and
\* resets the message; the machine stays in `playing`.
NewPuzzleInReady ==
  [][state = "playing" /\ lastEvent' = "NEW_PUZZLE"
       => /\ puzzleIndex' = (puzzleIndex + 1) % Len(PUZZLES)
          /\ letters' = PUZZLES[puzzleIndex' + 1].letters
          /\ centerLetter' = PUZZLES[puzzleIndex' + 1].centerLetter
          /\ currentInput' = <<>>
          /\ foundWords' = <<>>
          /\ score' = 0
          /\ lastMessage' = NoMsg
          /\ lastMessageType' = "info"
          /\ state' = "playing"
          /\ children' = <<>>]_vars

\* the NEW_PUZZLE after the last puzzle of the catalog has led to the first
NewPuzzleWrapped ==
  /\ state = "playing"
  /\ lastEvent = "NEW_PUZZLE"
  /\ puzzleIndex = 0
  /\ letters = PUZZLES[1].letters
  /\ centerLetter = "K"
  /\ foundWords = <<>>
  /\ score = 0

\* C19: an ADD_LETTER(l) in `playing` whose letter is, whatever its case,
\* one of the puzzle's letters appends the letter in upper case to
\* currentInput (a letter may repeat) and clears lastMessage; any other
\* letter is ignored: control state and context stay as they are.
LetterTyped ==
  [][\A l \in AddLetters :
       state = "playing" /\ ADD_LETTER(l)
         => IF \E j \in 1..Len(letters) :
                 toLowerCaseChar(letters[j]) = toLowerCaseChar(l)
              THEN /\ Len(currentInput') = Len(currentInput) + 1
                   /\ \A i \in 1..Len(currentInput) :
                        currentInput'[i] = currentInput[i]
                   /\ currentInput'[Len(currentInput')] = toUpperCaseChar(l)
                   /\ includes(UpperChars, currentInput'[Len(currentInput')])
                   /\ lastMessage' = NoMsg
                   /\ UNCHANGED << state, letters, centerLetter, foundWords,
                                   score, puzzleIndex, children >>
              ELSE UNCHANGED << state, context, children >>]_vars

\* k typed twice after a refused SUBMIT: KK in currentInput, message cleared
RepeatedLetterTyped ==
  /\ state = "playing"
  /\ lastEvent = "ADD_LETTER"
  /\ currentInput = <<"K", "K">>
  /\ lastMessage = NoMsg
  /\ lastMessageType = "error"

\* C20: a DELETE_LETTER in `playing` removes the last character of
\* currentInput and no other; with currentInput empty it changes nothing,
\* neither the control state nor the context, and sets no error.
LastLetterDeleted ==
  [][state = "playing" /\ lastEvent' = "DELETE_LETTER"
       => IF currentInput = <<>>
            THEN UNCHANGED << state, context, children >>
            ELSE /\ Len(currentInput') = Len(currentInput) - 1
                 /\ \A i \in 1..Len(currentInput') :
                      currentInput'[i] = currentInput[i]
                 /\ UNCHANGED << state, letters, centerLetter, foundWords,
                                 score, puzzleIndex, lastMessageType,
                                 children >>]_vars

\* DELETE_LETTER with nothing typed: the message of the SUBMIT before it stays
DeleteOnEmpty ==
  /\ state = "playing"
  /\ lastEvent = "DELETE_LETTER"
  /\ currentInput = <<>>
  /\ lastMessage = Msg("Word must be at least 4 letters", "", 0)
  /\ lastMessageType = "error"

\* the step leaves the snapshot of a word the dictionary does not know
NotAWordSnapshot ==
  /\ state' = "playing"
  /\ children' = <<>>
  /\ currentInput' = <<>>
  /\ lastMessage' = Msg("Not a valid English word", "", 0)
  /\ lastMessageType' = "error"
  /\ UNCHANGED << letters, centerLetter, foundWords, score, puzzleIndex >>

\* the completion of a validation whose word the dictionary answered false to
RefusedAfterLookup ==
  /\ lastEvent' = "xstate.done.actor"
  /\ children[1].dictionaryCalls = 1
  /\ ~children[1].output.valid

\* C21 as stated: the completion of a validation whose lookup failed, be it
\* answered false or thrown, leaves the snapshot that an answer "not a
\* word" leaves, lastMessage and lastMessageType included.
FailureLooksLikeNotAWord ==
  [][RefusedAfterLookup \/ lastEvent' = "xstate.error.actor"
       => NotAWordSnapshot]_vars

\* C21 amended: a lookup that fails inside validateWordDictionary is
\* answered false and leaves the very snapshot of "not a word"; a lookup
\* that throws leaves the same snapshot but for lastMessage, which then is
\* "Failed to validate word".
FailureLooksLikeNotAWordButThrow ==
  [][/\ RefusedAfterLookup => NotAWordSnapshot
     /\ lastEvent' = "xstate.error.actor"
          => /\ state' = "playing"
             /\ children' = <<>>
             /\ currentInput' = <<>>
             /\ lastMessage' = Msg("Failed to validate word", "", 0)
             /\ lastMessageType' = "error"
             /\ UNCHANGED << letters, centerLetter, foundWords, score,
                             puzzleIndex >>]_vars

\* the lookup of a word of the dictionary failed and was answered false
LookupFailedForKnownWord ==
  /\ state = "validating"
  /\ children[1].status = "resolved"
  /\ children[1].dictionaryCalls = 1
  /\ ~children[1].output.valid
  /\ toLowerCase(children[1].input.word) \in Dictionary
  /\ foundWords # <<>>

\* C22 (under Mechanics): either version of validateWordDictionary returns
\* false when the lookup fails (fetch throws, the service answers with an
\* error status, the body does not parse; for the local version: no word
\* list could be read and the request fails), and returns a truthy value
\* only for a word that the word list holds or the service answered for.
DictionaryFailsClosed ==
  /\ mech.fn = "validateWordDictionaryApi"
       => LET fetch == mech.args.fetch
              failed == \/ fetch.kind = "throws"
                        \/ ~fetch.ok
                        \/ fetch.body = "throws"
          IN  /\ failed => mech.result = JsValue("boolean", FALSE)
              /\ mech.result.truthy
                   => /\ fetch.kind = "response" /\ fetch.ok
                      /\ fetch.body = "array"
                      /\ Len(fetch.entries) > 0
                      /\ fetch.entries[1] \notin {"", "undefined"}
  /\ mech.fn = "validateWordDictionaryLocal"
       => LET fetch == mech.args.fetch
              file == mech.args.file
              listed == /\ file.env = "node" /\ file.read = "ok"
                        /\ toLowerCase(mech.args.word) \in file.words
              noList == file.env # "node" \/ file.read # "ok" \/ file.words = {}
              failed == noList /\ (fetch.kind = "throws" \/ ~fetch.ok)
          IN  /\ failed => mech.result = JsValue("boolean", FALSE)
              /\ mech.result.truthy
                   => listed \/ (noList /\ fetch.kind = "response" /\ fetch.ok)

\* dictionary.txt could not be read and the request failed too: RACK is
\* answered false
NoListNoNetwork ==
  /\ mech.fn = "validateWordDictionaryLocal"
  /\ mech.args.word = <<"R", "A", "C", "K">>
  /\ mech.args.file.read = "throws"
  /\ mech.args.fetch.kind = "throws"
  /\ mech.result = JsValue("boolean", FALSE)

\* C23 (under Mechanics): calculateWordScore(word, letters) is 1 for a word
\* of exactly 4 characters and the length of the word otherwise, plus 7 if
\* the word is a pangram of letters; on R,A,C,K,I,N,G rack scores 1, crack
\* 5, racking 14 and cracking 15.
ScoreWordFormula ==
  mech.fn = "calculateWordScore"
    => LET word == mech.args.word
           base == IF Len(word) = 4 THEN 1 ELSE Len(word)
           bonus == IF isPangram(word, mech.args.letters) THEN 7 ELSE 0
       IN  /\ mech.result = base + bonus
           /\ mech.args.letters = PUZZLES[1].letters
                => /\ word = rack => mech.result = 1
                   /\ word = <<"c", "r", "a", "c", "k">> => mech.result = 5
                   /\ word = <<"r", "a", "c", "k", "i", "n", "g">> => mech.result = 14
                   /\ word = cracking => mech.result = 15

\* cracking has been scored on R,A,C,K,I,N,G
CrackingScored ==
  /\ mech.fn = "calculateWordScore"
  /\ mech.args.word = cracking
  /\ mech.args.letters = PUZZLES[1].letters
  /\ mech.result = 15

\* C24 (under Mechanics): validateWordRules checks, in this order, that the
\* word has at least 4 letters, holds the center letter, uses the puzzle's
\* letters only and is not found yet; it accepts a word that passes all
\* four and refuses any other with the reason of the first check it fails.
FirstFailureWins ==
  mech.fn = "validateWordRules"
    => LET word == mech.args.word
           short == Len(word) < 4
           noCenter == \A i \in 1..Len(word) :
                         toLowerCaseChar(word[i])
                           # toLowerCaseChar(mech.args.centerLetter)
           outside == \E i \in 1..Len(word) :
                        \A j \in 1..Len(mech.args.letters) :
                          toLowerCaseChar(word[i])
                            # toLowerCaseChar(mech.args.letters[j])
           again == \E n \in 1..Len(mech.args.foundWords) :
                      mech.args.foundWords[n] = toLowerCase(word)
           reason == IF short THEN "Too short! Need 4+ letters"
                     ELSE IF noCenter THEN "Must include center letter: "
                     ELSE IF outside THEN "Uses letters not in the puzzle"
                     ELSE IF again THEN "Already found!"
                     ELSE ""
       IN  /\ mech.result.valid <=> ~(short \/ noCenter \/ outside \/ again)
           /\ mech.result.reason.text = reason

\* zzzz lacks the center letter, uses a letter outside the puzzle and is
\* found already: the center letter is the reason given
SeveralRulesFail ==
  /\ mech.fn = "validateWordRules"
  /\ mech.args.word = <<"z", "z", "z", "z">>
  /\ mech.args.letters = PUZZLES[1].letters
  /\ Len(mech.args.foundWords) = 4
  /\ ~mech.result.valid
  /\ mech.result.reason = Msg("Must include center letter: ", "K", 0)

\* the characters of a string, in lower case
LowerSet(w) == {toLowerCaseChar(w[i]) : i \in 1..Len(w)}

\* C25 (under Mechanics): isPangram(word, letters) is true exactly when every
\* puzzle letter occurs in word, case apart and whatever the length of the
\* word: cracking, 8 letters long, is a pangram of R,A,C,K,I,N,G.
PangramIsInclusion ==
  mech.fn = "isPangram"
    => /\ mech.result <=> LowerSet(mech.args.letters) \subseteq LowerSet(mech.args.word)
       /\ mech.args.word = cracking /\ mech.args.letters = PUZZLES[1].letters
            => mech.result

\* Racking, in mixed case, is a pangram of the letters given in lower case
MixedCasePangram ==
  /\ mech.fn = "isPangram"
  /\ mech.args.word = <<"R", "a", "c", "k", "i", "n", "g">>
  /\ mech.args.letters = <<"r", "a", "c", "k", "i", "n", "g">>
  /\ mech.result

\* C26 (under Mechanics): for letters that are 7 distinct letters a word that
\* isPangram holds has at least 7 characters, so validateWordRules never
\* calls it too short and calculateWordScore gives it at least 14.
PangramIsLong ==
  /\ mech.fn = "isPangram" /\ mech.result
     /\ Cardinality(LowerSet(mech.args.letters)) = 7
       => Len(mech.args.word) >= 7
  /\ mech.fn = "calculateWordScore"
     /\ isPangram(mech.args.word, mech.args.letters)
     /\ Cardinality(LowerSet(mech.args.letters)) = 7
       => Len(mech.args.word) >= 7 /\ mech.result >= 14
  /\ mech.fn = "validateWordRules"
     /\ isPangram(mech.args.word, mech.args.letters)
     /\ Cardinality(LowerSet(mech.args.letters)) = 7
       => mech.result.reason.text # "Too short! Need 4+ letters"

\* the shortest pangram there is, 7 letters long, scores 14
ShortestPangramScored ==
  /\ mech.fn = "calculateWordScore"
  /\ mech.args.word = <<"g", "n", "i", "k", "c", "a", "r">>
  /\ mech.args.letters = PUZZLES[1].letters
  /\ mech.result = 14

\* C27 (under Mechanics): createCustomPuzzle returns a puzzle exactly when
\* it is given 7 letters, no two the same case apart, and a center letter
\* that is one of them; the puzzle holds the letters and the center letter
\* in upper case; otherwise it returns an error that names a condition the
\* input does break.
CustomPuzzleChecked ==
  mech.fn = "createCustomPuzzle"
    => LET ltrs == mech.args.letters
           seven == Len(ltrs) = 7
           distinct == \A i, j \in 1..Len(ltrs) :
                         toLowerCaseChar(ltrs[i]) = toLowerCaseChar(ltrs[j])
                           => i = j
           centered == \E i \in 1..Len(ltrs) :
                         toLowerCaseChar(ltrs[i])
                           = toLowerCaseChar(mech.args.centerLetter)
       IN  /\ mech.result.error = "" <=> (seven /\ distinct /\ centered)
           /\ mech.result.error = ""
                => /\ mech.result.letters = toUpperCase(ltrs)
                   /\ mech.result.centerLetter
                        = toUpperCaseChar(mech.args.centerLetter)
           /\ mech.result.error = "Must have exactly 7 letters" => ~seven
           /\ mech.result.error = "Center letter must be one of the 7 letters"
                => ~centered
           /\ mech.result.error = "All 7 letters must be unique" => ~distinct
           /\ mech.result.error \in
                {"", "Must have exactly 7 letters",
                 "Center letter must be one of the 7 letters",
                 "All 7 letters must be unique"}

\* r and R are the same letter: the puzzle is refused for its duplicate
DuplicateCaseApart ==
  /\ mech.fn = "createCustomPuzzle"
  /\ mech.args.letters = <<"r", "A", "C", "K", "I", "N", "R">>
  /\ mech.args.centerLetter = "k"
  /\ mech.result = CustomError("All 7 letters must be unique")

\* C28 as stated (under Mechanics): getPuzzle(index) is the entry of the
\* catalog at index mod the size of the catalog, for every index, so that
\* getPuzzle(10) is getPuzzle(0); and every entry of the catalog has 7
\* distinct letters, the center letter one of them.
GetPuzzleWraps ==
  /\ mech.fn = "getPuzzle"
       => /\ mech.result = PUZZLES[(mech.args.index % Len(PUZZLES)) + 1]
          /\ mech.args.index = 10 => mech.result = getPuzzle(0)
  /\ \A p \in 1..Len(PUZZLES) :
       /\ Len(PUZZLES[p].letters) = 7
       /\ Cardinality({PUZZLES[p].letters[i] : i \in 1..7}) = 7
       /\ \E i \in 1..7 : PUZZLES[p].letters[i] = PUZZLES[p].centerLetter

\* the scores of the words of found on the puzzle with the letters ltrs
RECURSIVE TotalScore(_, _)
TotalScore(found, ltrs) ==
  IF found = <<>>
    THEN 0
    ELSE calculateWordScore(Head(found), ltrs) + TotalScore(Tail(found), ltrs)

\* C29: in every reachable state score is the sum, over the words of
\* foundWords, of their scores on the current puzzle.
ScoreIsSum == score = TotalScore(foundWords, letters)

\* three words are found, two of 4 letters and the pangram cracking
ThreeWordsScored ==
  /\ Len(foundWords) = 3
  /\ score = 17
  /\ state = "playing"

\* C30: in every reachable state letters and centerLetter are those of the
\* catalog entry at puzzleIndex modulo the size of the catalog, whatever
\* index >= 0 the machine was created with; a NEW_PUZZLE either moves the
\* index on by one modulo 10 (in `playing`) or changes nothing (in
\* `validating`) and leaves the control state, so that ten of them in a row
\* lead back to the same puzzle.
PuzzleFollowsIndex ==
  /\ [](/\ puzzleIndex >= 0
        /\ letters = PUZZLES[(puzzleIndex % Len(PUZZLES)) + 1].letters
        /\ centerLetter
             = PUZZLES[(puzzleIndex % Len(PUZZLES)) + 1].centerLetter)
  /\ [][lastEvent' = "NEW_PUZZLE"
          => /\ state' = state
             /\ IF state = "playing"
                  THEN puzzleIndex' % Len(PUZZLES)
                         = (puzzleIndex + 1) % Len(PUZZLES)
                  ELSE UNCHANGED << puzzleIndex, letters, centerLetter >>]_vars

\* a machine created with an index beyond the end of the catalog shows the
\* puzzle the index wraps to, and has refused a submission on it
StartedBeyondCatalog ==
  /\ puzzleIndex >= Len(PUZZLES)
  /\ letters = PUZZLES[(puzzleIndex % Len(PUZZLES)) + 1].letters
  /\ lastEvent = "SUBMIT_WORD"
  /\ lastMessageType = "error"

\* C31: in every reachable state currentInput consists only of upper-case
\* letters of the current puzzle, whatever the events carried.
InputOfPuzzleLetters ==
  \A i \in 1..Len(currentInput) :
    /\ includes(letters, currentInput[i])
    /\ includes(UpperChars, currentInput[i])

\* K, I, C typed: the K was sent in lower case, and a Z sent with
\* ADD_LETTER could have come at any point between them
LowerCaseTyped ==
  /\ currentInput = << "K", "I", "C" >>
  /\ lastEvent = "ADD_LETTER"

\* the refusals that can follow a validation
ValidatingRefusals ==
  { "Must include center letter: ", "Already found!",
    "Not a valid English word", "Failed to validate word" }

\* C32: while the machine is validating, the word under test is
\* currentInput, has at least 4 characters and uses only letters of the
\* puzzle; no validateWord actor ever answers "too short" or "letters not in
\* the puzzle", and a validation that ends in a refusal shows one of: center
\* letter missing, already found, not a dictionary word, failed to validate.
ValidatingWordPassedGuards ==
  /\ [](state = "validating"
          => /\ children # <<>>
             /\ children[Len(children)].input.word = currentInput
             /\ Len(currentInput) >= 4
             /\ usesOnlyAvailableLetters(currentInput, letters))
  /\ [](\A i \in 1..Len(children) :
          children[i].output.reason.text
            \notin { "Too short! Need 4+ letters",
                     "Uses letters not in the puzzle" })
  /\ [][state = "validating" /\ state' = "playing"
         /\ lastMessageType' = "error"
         => lastMessage'.text \in ValidatingRefusals]_vars

\* a word of four puzzle letters without the center letter was validated
\* and refused by the rules
CenterLetterMissing ==
  /\ state = "playing"
  /\ lastEvent = "xstate.done.actor"
  /\ lastMessage.text = "Must include center letter: "
  /\ lastMessage.letter = centerLetter

\* the word of call i as the machine takes it, and whether it came to be
\* in foundWords between the call and its return
WordAdded(i) ==
  LET w == toLowerCase(validLetters(agent[i].word, agent[i].letters))
  IN  /\ ~includes(agent[i].foundBefore, w)
      /\ includes(agent[i].result.foundWords, w)

\* C33: every accepted word is worth at least 1 point; a validation that
\* completes raises score iff it lengthens foundWords; a call of submitWord
\* returns accepted = TRUE exactly when the word it submitted was added to
\* foundWords.
AcceptedIffAdded ==
  /\ [](\A i \in 1..Len(children) :
          children[i].output.valid => children[i].output.points >= 1)
  /\ [][lastEvent' \in {"xstate.done.actor", "xstate.error.actor"}
         => (score' > score <=> Len(foundWords') > Len(foundWords))]_vars
  /\ [](\A i \in 1..Len(agent) :
          agent[i].status = "returned"
            => (agent[i].result.accepted <=> WordAdded(i)))

\* C34: a SUBMIT_WORD in `playing` never adds to what was composed before:
\* if it starts a validation, currentInput is the sent word cut down to its
\* puzzle letters and nothing else, and that is the word under test; if it
\* does not, currentInput is what it was.
SubmitWordReplacesInput ==
  [][\A w \in SubmitWords :
       state = "playing" /\ SUBMIT_WORD(w)
         => IF state' = "validating"
              THEN /\ IsFiltered(currentInput', w, letters)
                   /\ children'[Len(children')].input.word = currentInput'
              ELSE currentInput' = currentInput]_vars

\* letters were typed and a word sent whole was then refused by the guard:
\* the typed letters are still there
TypedInputSurvivesRefusal ==
  /\ state = "playing"
  /\ lastEvent = "SUBMIT_WORD"
  /\ lastMessage.text = "Word must be at least 4 valid letters"
  /\ Len(currentInput) = 3

\* C35: ADD_LETTER, DELETE_LETTER and CLEAR change nothing but currentInput
\* and lastMessage: the puzzle, foundWords, score, puzzleIndex, the control
\* state, the kind of the message and the running validation stay.
CompositionFrame ==
  [][lastEvent' \in {"ADD_LETTER", "DELETE_LETTER", "CLEAR"}
       => UNCHANGED << state, letters, centerLetter, foundWords, score,
                       puzzleIndex, lastMessageType, children >>]_vars

\* CLEAR after an accepted word: the message is gone, its kind and the
\* score are not
ClearedAfterSuccess ==
  /\ lastEvent = "CLEAR"
  /\ score > 0
  /\ lastMessageType = "success"
  /\ lastMessage = NoMsg

\* the numbers of the messages the handlers of side were called with
Delivered(side) ==
  [i \in 1..Len(transport.received[side]) |->
     transport.received[side][i].message.n]

\* how often message m is found in the sequence of tasks or messages s
Occurrences(s, m) == Cardinality({i \in 1..Len(s) : s[i] = m})

\* C36: every message sent on one side while connected reaches the handler
\* of the other side exactly once and in the order sent, also when it had
\* to wait in the queue for a handler: what a side has received is the
\* messages 1, 2, ... of the other side, and a message not yet received is
\* waiting exactly once, in the queue or in a microtask.
DeliveredOnceInOrder ==
  \A side \in Sides :
    LET from == IF side = "client" THEN "server" ELSE "client"
        got == Delivered(side)
        queue == receiveQueue(side)
        waiting ==
          transport[queue].messages \o
          [i \in 1..Len(transport.microtasks) |->
             transport.microtasks[i].message]
    IN  /\ \A i \in 1..Len(got) : got[i] = i
        /\ \A n \in 1..transport.sent[from] :
             Occurrences(got, n)
               + Occurrences(waiting, [from |-> from, n |-> n]) = 1

\* C37: a reset() made while a step() is awaiting processActionAsync is
\* not undone: when that step completes, the phase is still `idle`, the
\* context is the new initial context and nothing of the step is in it.
ResetSurvivesStep ==
  [][/\ engine.phase = "idle"
     /\ Len(engine'.pending) < Len(engine.pending)
     => /\ engine'.phase = "idle"
        /\ engine'.context = createInitialContext]_vars

\* the guess made last matches the answer of the game, in the words of the
\* catalog: equal once both are lower-cased and stripped of outer spaces
LastGuessRight(p) ==
  trim(toLowerCase(p.currentGuesses[Len(p.currentGuesses)]))
    = trim(toLowerCase(PINPOINT_GAMES[p.gameIndex + 1].correctAnswer))

\* C38: the Pinpoint machine is over after at most 5 guesses.  While it is
\* playing, the hints shown are the first ones of the game, one more than
\* the guesses made, and never more than 5.  A guess that is right ends the
\* game and adds 10, 5, 2 points for the 1st, 2nd, 3rd guess and 0 for a
\* later one; a wrong guess adds nothing, ends the game if all 5 hints are
\* shown and reveals one more hint otherwise.
PinpointFinishes ==
  /\ [](pinpoint.value = "playing"
          => /\ Len(pinpoint.hintWords) = Len(pinpoint.currentGuesses) + 1
             /\ Len(pinpoint.hintWords) <= 5
             /\ \A i \in 1..Len(pinpoint.hintWords) :
                  pinpoint.hintWords[i]
                    = PINPOINT_GAMES[pinpoint.gameIndex + 1].inputWords[i])
  /\ [](/\ Len(pinpoint.currentGuesses) <= 5
        /\ Len(pinpoint.currentGuesses) = 5 => pinpoint.value = "finished")
  /\ [][pinpoint.value = "playing" /\ pinpoint' # pinpoint
         => LET n == Len(pinpoint'.currentGuesses)
                points == IF n = 1 THEN 10
                          ELSE IF n = 2 THEN 5
                          ELSE IF n = 3 THEN 2 ELSE 0
            IN  /\ n = Len(pinpoint.currentGuesses) + 1
                /\ IF LastGuessRight(pinpoint')
                     THEN /\ pinpoint'.value = "finished"
                          /\ pinpoint'.overallScore
                               = pinpoint.overallScore + points
                     ELSE /\ pinpoint'.overallScore = pinpoint.overallScore
                          /\ IF Len(pinpoint.hintWords) = 5
                               THEN pinpoint'.value = "finished"
                               ELSE /\ pinpoint'.value = "playing"
                                    /\ Len(pinpoint'.hintWords)
                                         = Len(pinpoint.hintWords) + 1]_vars

\* the third guess, sent in upper case with spaces around it, was right
ThirdGuessRight ==
  /\ pinpoint.value = "finished"
  /\ Len(pinpoint.currentGuesses) = 3
  /\ pinpoint.overallScore = 2
  /\ pinpoint.currentGuesses[3][1] = " "

====
